---- MODULE Spec2Model ----
(***************************************************************************)
(* devos-orchestrator: the CLI session supervisor (SessionManager,         *)
(* ClaudeCodeSession), its Redis session store (CliSessionRedisService),   *)
(* the HealthMonitor and the CliOutputPublisher, as state machines.        *)
(*                                                                         *)
(* Node runs one handler at a time: a handler runs from the event that     *)
(* starts it (a call, a timer, a Redis reply, a child-process event) to    *)
(* its next await on I/O, and promise continuations that need no I/O run   *)
(* before the next event.  One action below is one such run.               *)
(***************************************************************************)
EXTENDS Integers, Sequences, FiniteSets, TLC

\* ---------------------------------------------------------------- bounds
\* Number of uuids createSession may hand out in one run.
MaxSessions == 3
\* Number of createSession calls in one run of the whole system (Spec).
MaxCalls == 1
\* Number of createSession calls in one run of the specification of exits
\* during createSession (SpecExitFair).
MaxExitCalls == 2
\* Number of distinct agent ids callers use.
MaxAgents == 2
\* SessionManagerConfig.maxConcurrentSessions as configured for the run.
maxConcurrentSessions == 1
\* Output lines and commands of one process of the single-session
\* specification, and the spawn() calls made on that session.
MaxLines == 3
MaxSpawns == 2
\* terminate() calls that can be waiting for one exit.
MaxWaiters == 2
\* publish() calls of one run of the publisher specification.
MaxEvents == 4
\* PublisherConfig.maxBatchSize and retryAttempts as configured for the run.
maxBatchSize == 2
retryAttempts == 2
\* publish() calls of one run of the smaller publisher specification.
MaxFewEvents == 2

\* HistoryConfig.maxLines as configured for the run, the events appended
\* to one history in a run, the longest array given to addEvents and the
\* getHistory calls of a run.
maxLines == 2
MaxHistEvents == 4
MaxBatch == 3
MaxReads == 2

\* Calls of CliSessionRedisService in one run of its specification, the
\* session ids its callers use and the largest pid of a spawned process.
MaxStoreCalls == 3
MaxStoreIds == 2
MaxPid == 12

\* ModelRegistryClient: maxCacheSize and cacheTtlMs as configured for the
\* run, the urls fetched, the cachedFetch calls of a run, the fetches
\* awaited at once and the clock's last tick.
maxCacheSize == 3
cacheTtlMs == 2
MaxUrls == 4
MaxFetches == 5
MaxInFlight == 2
MaxNow == 3

Urls == 1..MaxUrls
Events == 1..MaxEvents
StoreIds == 1..MaxStoreIds
SessionIds == 1..MaxSessions
\* A session id whose record was written to the shared store by an earlier
\* run or another replica: this SessionManager never tracked it.
OrphanId == MaxSessions + 1
AllIds == 1..(MaxSessions + 1)
NoSession == 0
Agents == 1..MaxAgents
Workspaces == {1, 2}

\* Callers of SessionManager.terminateSession that can be waiting at once.
TermCallers == {"user", "monitor"}

VARIABLES
    \* --- SessionManager.createSession calls, by the id the call generates
    nextId,          \* index of the next uuid
    cpc,             \* position of the call: none, counted, storing, done
    agentOf,         \* the call's agentId
    wsOf,            \* the call's workspaceId
    peak,            \* per workspace: most calls ever in flight at once
    \* --- ClaudeCodeSession objects
    status,          \* ClaudeCodeSession.status
    signal,          \* strongest signal sent to the running process
    listeners,       \* listeners of the session's 'terminated' event
    \* --- SessionManager maps
    sessions,        \* keys of SessionManager.sessions
    agentToSession,  \* SessionManager.agentToSession
    \* --- Redis store
    rec,             \* cli:session:{id} hashes
    wsSet,           \* cli:workspace:{ws}:sessions sets
    agentPtr,        \* cli:agent:{agent} strings
    bgDelete,        \* deleteSession calls nobody awaits, not yet executed
    \* --- SessionManager.terminateSession calls
    tpc,             \* position of each caller's call: idle, exitWait, deleting
    tsid,            \* the session id the call is for
    twasRunning,     \* the call found the session running
    \* --- SessionManager.terminateAllSessions
    allPc,           \* idle, waiting
    allWait,         \* sessions whose terminate() promise is unresolved
    \* --- HealthMonitor
    hmPc,            \* idle, scanning, terminating
    hmIds,           \* session ids of the pass still to examine
    staleSeen,       \* ids some pass has counted stale and handled
    \* --- one ClaudeCodeSession object on its own
    oStatus,         \* ClaudeCodeSession.status
    oProcess,        \* ClaudeCodeSession.process: null, alive, exited
    oLineNumber,     \* ClaudeCodeSession.lineNumber
    oLastType,       \* type of the last output event emitted
    oSpawns,         \* number of successful spawn() calls
    oWaiters,        \* terminate() promises not yet resolved
    oTimers,         \* sigkillTimeout timers armed
    oSignal,         \* strongest signal sent to the current process
    oUnread,         \* lines the process wrote that readline has not read
    oLog,            \* lineNumber of every output event emitted, in order
    oNotified,       \* number of 'terminated' notifications emitted
    \* --- CliOutputPublisher, its Redis connection and the channel
    nextEv,          \* lineNumber of the next event handed to publish()
    pendingEvents,   \* CliOutputPublisher.pendingEvents
    batchTimer,      \* batchTimer is set
    isShuttingDown,  \* CliOutputPublisher.isShuttingDown
    isFlushInProgress, \* the flush lock (flushPromise is set with it)
    batch,           \* eventsToPublish of the flush in progress
    owner,           \* the caller whose flush() started that flush
    waiters,         \* flush() calls awaiting flushPromise, in order
    evState,         \* per event: none, pending, sending, backoff, ok, failed
    attempt,         \* per event: attempt of its publishWithRetry
    redisQ,          \* PUBLISH commands sent and not yet executed, in order
    channel,         \* events delivered to the channel's subscribers
    eventsPublished, \* metrics.eventsPublished
    publishFailures, \* metrics.publishFailures
    sdPc,            \* shutdown(): none, waiting, returned
    sdMark,          \* number of events accepted when shutdown() was called
    \* --- the CLI module (createCliModule ... shutdownCliModule)
    modPc,           \* shutdownCliModule: up, draining, terminating, closed
    hmRunning,       \* HealthMonitor.isRunning (its interval timer is armed)
    allIssued,       \* sessions whose deleteSession terminateAllSessions issued
    \* --- SessionHistoryService and the list cli:history:{sessionId}
    history,         \* the Redis list, head (index 0) first
    hNext,           \* number of the next event handed to addEvent(s)
    hPipe,           \* commands sent on the connection, not yet executed
    hReads,          \* getHistory calls made so far
    hRead,           \* what the last getHistory returned
    \* --- CliSessionRedisService, one Redis command at a time
    sessionKey,      \* per session id: the hash cli:session:{id}
    sessionTtl,      \* per session id: that key has a time to live
    workspaceKey,    \* per workspace: the set cli:workspace:{w}:sessions
    agentKey,        \* per agent: the string cli:agent:{a}
    storeCall,       \* the service call in progress or last returned
    storeCalls,      \* service calls made so far
    stored,          \* per session id: metadata of its last storeSession
    \* --- TaskModelRouter and what it consults
    catalog,         \* the models the registry serves, in its order
    registryDown,    \* fetches from the model registry fail
    registryEnabled, \* providers for which isProviderEnabled is true
    rtRequest,       \* the TaskRoutingRequest of the routeTask calls
    rtConfig,        \* the WorkspaceRoutingConfig of the routeTask calls
    rtCalls,         \* routeTask calls completed
    rtFirst,         \* outcome of the first routeTask call
    rtLast,          \* outcome of the latest routeTask call
    \* --- BaseProvider, one operation (complete, embed, stream) at a time
    pvOp,            \* the operation in progress or last finished
    pvPc,            \* idle, calling, sleeping, returned, threw
    pvAttempt,       \* withRetry's loop variable
    pvCalls,         \* vendor calls the operation has made
    pvErrors,        \* errors the operation caught, in order
    pvThrown,        \* the error the operation let through to its caller
    pvOps,           \* operations started so far
    \* --- CliSessionRedisService.getAllSessionIds and the keys SCAN walks over
    keyspace,        \* the store's keys at the call, in the order SCAN meets them
    scPc,            \* getAllSessionIds: idle, scanning, returned
    scCursor,        \* keys the SCAN calls so far have walked over (the cursor)
    scIterations,    \* the loop's iterations
    scIds,           \* the sessionIds array
    \* --- ModelRegistryClient.cachedFetch and its cache
    cache,           \* the Map, entries in its iteration (insertion) order
    cfNow,           \* Date.now()
    cfInFlight,      \* per url: fetchFromApi calls awaited
    cfCalls,         \* cachedFetch calls made so far
    cfStores,        \* cache.set calls made so far
    \* --- CliOutputPublisher.publishWithRetry of one message, with the time it takes
    pwConfig,        \* retryAttempts and retryDelayMs of the publisher of the call
    pwPc,            \* "idle", "attempt" (awaiting the race), "delay", "returned"
    pwAttempt,       \* the loop variable attempt
    pwNow,           \* ms since the first attempt began
    pwDelays,        \* the back-off delays slept so far, in order
    pwTimeouts,      \* the attempts that lost the race to the publish timeout
    pwResult,        \* "none", "ok", or "dropped" (publishFailures++)
    pwCalls,         \* publishWithRetry calls so far
    \* --- CliOutputPublisher batching, with the clock
    bwMaxBatchSize,  \* config.maxBatchSize of the publisher; 0: not constructed yet
    bwNow,           \* the clock, in ticks
    bwPending,       \* pendingEvents: the enqueue time of each pending event
    bwTimerDue,      \* when batchTimer fires; 0: batchTimer is null
    bwInFlight,      \* isFlushInProgress (flushPromise is set)
    bwWaiters,       \* flush() calls awaiting flushPromise
    bwFlushes        \* the flushes so far: when each began and the events it took

callVars == <<nextId, cpc, agentOf, wsOf, peak>>
procVars == <<status, signal, listeners>>
mapVars == <<sessions, agentToSession>>
storeVars == <<rec, wsSet, agentPtr>>
termVars == <<tpc, tsid, twasRunning>>
allVars == <<allPc, allWait>>
hmVars == <<hmPc, hmIds, staleSeen>>

sessVars == <<callVars, procVars, mapVars, storeVars, bgDelete, termVars,
              allVars, hmVars>>

objVars == <<oStatus, oProcess, oLineNumber, oLastType, oSpawns, oWaiters,
             oTimers, oSignal, oUnread, oLog, oNotified>>

\* What the listeners of one session have received.
oHeard == <<oLog, oNotified>>

pubVars == <<nextEv, pendingEvents, batchTimer, isShuttingDown,
             isFlushInProgress, batch, owner, waiters, evState, attempt,
             redisQ, channel, eventsPublished, publishFailures, sdPc, sdMark>>

modVars == <<modPc, hmRunning, allIssued>>

\* The components no action of the session system, of the single session or
\* of the publisher touches.
histVars == <<history, hNext, hPipe, hReads, hRead>>

apiVars == <<sessionKey, sessionTtl, workspaceKey, agentKey, storeCall,
             storeCalls, stored>>

routerVars == <<catalog, registryDown, registryEnabled, rtRequest, rtConfig,
                rtCalls, rtFirst, rtLast>>

provVars == <<pvOp, pvPc, pvAttempt, pvCalls, pvErrors, pvThrown, pvOps>>

scanVars == <<keyspace, scPc, scCursor, scIterations, scIds>>

cacheVars == <<cache, cfNow, cfInFlight, cfCalls, cfStores>>

retryVars == <<pwConfig, pwPc, pwAttempt, pwNow, pwDelays, pwTimeouts, pwResult, pwCalls>>

batchVars == <<bwMaxBatchSize, bwNow, bwPending, bwTimerDue, bwInFlight, bwWaiters, bwFlushes>>

\* The components next to the module.
sideVars == <<histVars, apiVars, routerVars, provVars,
             scanVars,
             cacheVars,
             retryVars,
             batchVars>>

outerVars == <<modVars, sideVars>>

\* What the actions of the SessionManager system leave alone.
restVars == <<objVars, pubVars, outerVars>>

vars == <<sessVars, restVars>>

\* ------------------------------------------------------------ the store
NoRec ==
    [agentId |-> 0, workspaceId |-> 0, status |-> "none", stale |-> FALSE,
     terminatedAt |-> FALSE]

\* CliSessionRedisService.getWorkspaceSessionCount: SMEMBERS, then length.
getWorkspaceSessionCount(w) == Cardinality(wsSet[w])

\* The hash storeSession writes for the metadata of a session just spawned:
\* status 'running', lastHeartbeat = now, no terminatedAt.
SessionRecord(a, w) ==
    [agentId |-> a, workspaceId |-> w, status |-> "running", stale |-> FALSE,
     terminatedAt |-> FALSE]

\* storeSession's SADD of the session id to its workspace set.
storeSessionSadd(set, s) == set \cup {s}

\* CliSessionRedisService.storeSession: HSET + EXPIRE, SADD, SET.
storeSession(s, a, w) ==
    /\ rec' = [rec EXCEPT ![s] = SessionRecord(a, w)]
    /\ wsSet' = [wsSet EXCEPT ![w] = storeSessionSadd(@, s)]
    /\ agentPtr' = [agentPtr EXCEPT ![a] = s]

\* CliSessionRedisService.deleteSession: reads the record; without one it
\* returns; else DEL of the hash, SREM from the workspace set, DEL of the
\* agent key.  The three results as functions of the store before.
deleteSessionRec(s) == [rec EXCEPT ![s] = NoRec]
\* (a deleteSession that forgets the SREM)
deleteSessionKeepsMembership(s) == wsSet
deleteSessionWs(s) ==
    IF rec[s] = NoRec \/ rec[s].workspaceId \notin Workspaces THEN wsSet
    ELSE [wsSet EXCEPT ![rec[s].workspaceId] = @ \ {s}]
deleteSessionAgent(s) ==
    IF rec[s] = NoRec \/ rec[s].agentId \notin Agents THEN agentPtr
    ELSE [agentPtr EXCEPT ![rec[s].agentId] = NoSession]

deleteSession(s) ==
    /\ rec' = deleteSessionRec(s)
    /\ wsSet' = deleteSessionWs(s)
    /\ agentPtr' = deleteSessionAgent(s)

\* CliSessionRedisService.updateHeartbeat: HSET lastHeartbeat (which creates
\* the hash when the key is gone), then EXPIRE.
updateHeartbeat(s) ==
    IF rec[s] = NoRec
    THEN [rec EXCEPT ![s] = [NoRec EXCEPT !.status = "undefined"]]
    ELSE [rec EXCEPT ![s].stale = FALSE]

\* (an updateStatus that writes the status the record had)
updateStatusKeepsStatus(r) == r

\* CliSessionRedisService.updateStatus(id, 'terminated'): HSET status, then
\* HSET terminatedAt; each creates the hash when the key is gone.
updateStatusHsetStatus(r) == [r EXCEPT !.status = "terminated"]
updateStatusHsetTerminatedAt(r) ==
    [r EXCEPT !.terminatedAt = TRUE,
              !.status = IF @ = "none" THEN "undefined" ELSE @]

\* ------------------------------------------------------------- helpers
InFlight(s) == cpc[s] \in {"counted", "storing"}
InFlightIn(w) == {s \in SessionIds : InFlight(s) /\ wsOf[s] = w}
Max(a, b) == IF a >= b THEN a ELSE b

\* startHeartbeat's interval runs from the end of createSession to the exit
\* of the process, and its callback acts only while status is 'running'.
HeartbeatLive(s) == s \in SessionIds /\ cpc[s] = "done" /\ status[s] = "running"

\* A deleteSession for s is on its way to the store.
CleanupPending(s) ==
    s \in bgDelete \/ \E c \in TermCallers : tpc[c] = "deleting" /\ tsid[c] = s

RunningIn(w) == {s \in SessionIds : status[s] = "running" /\ wsOf[s] = w}

\* ------------------------------------------------------------------ Init
\* The store outlives the process: at start it is empty, or it still holds
\* the record, set membership and agent pointer of one session of an earlier
\* run whose heartbeat has stopped.
OrphanRecord == [SessionRecord(1, 1) EXCEPT !.stale = TRUE]

InitSessWith(orphan) ==
    /\ nextId = 1
    /\ cpc = [s \in SessionIds |-> "none"]
    /\ agentOf = [s \in SessionIds |-> 0]
    /\ wsOf = [s \in SessionIds |-> 0]
    /\ peak = [w \in Workspaces |-> 0]
    /\ status = [s \in SessionIds |-> "idle"]
    /\ signal = [s \in SessionIds |-> "none"]
    /\ listeners = [s \in SessionIds |-> {}]
    /\ sessions = {}
    /\ agentToSession = [a \in Agents |-> NoSession]
    /\ rec = [s \in AllIds |->
                IF orphan /\ s = OrphanId THEN OrphanRecord ELSE NoRec]
    /\ wsSet = [w \in Workspaces |->
                IF orphan /\ w = 1 THEN {OrphanId} ELSE {}]
    /\ agentPtr = [a \in Agents |->
                IF orphan /\ a = 1 THEN OrphanId ELSE NoSession]
    /\ bgDelete = {}
    /\ tpc = [c \in TermCallers |-> "idle"]
    /\ tsid = [c \in TermCallers |-> NoSession]
    /\ twasRunning = [c \in TermCallers |-> FALSE]
    /\ allPc = "idle"
    /\ allWait = {}
    /\ hmPc = "idle"
    /\ hmIds = {}
    /\ staleSeen = {}

InitSess == \E orphan \in BOOLEAN : InitSessWith(orphan)

\* A ClaudeCodeSession after its constructor.
InitObj ==
    /\ oStatus = "idle"
    /\ oProcess = "null"
    /\ oLineNumber = 0
    /\ oLastType = "none"
    /\ oSpawns = 0
    /\ oWaiters = 0
    /\ oTimers = 0
    /\ oSignal = "none"
    /\ oUnread = 0
    /\ oLog = <<>>
    /\ oNotified = 0

\* A CliOutputPublisher after its constructor, an idle connection.
InitPub ==
    /\ nextEv = 1
    /\ pendingEvents = <<>>
    /\ batchTimer = FALSE
    /\ isShuttingDown = FALSE
    /\ isFlushInProgress = FALSE
    /\ batch = <<>>
    /\ owner = "none"
    /\ waiters = <<>>
    /\ evState = [e \in Events |-> "none"]
    /\ attempt = [e \in Events |-> 0]
    /\ redisQ = <<>>
    /\ channel = <<>>
    /\ eventsPublished = 0
    /\ publishFailures = 0
    /\ sdPc = "none"
    /\ sdMark = 0

\* The module after initializeCliModule: connected, the monitor started.
InitMod ==
    /\ modPc = "up"
    /\ hmRunning = TRUE
    /\ allIssued = {}

\* An empty history list, no call in progress.
InitHist ==
    /\ history = <<>>
    /\ hNext = 1
    /\ hPipe = <<>>
    /\ hReads = 0
    /\ hRead = <<>>

\* Absent fields of a hash and of a metadata object: 0, "" and <<>>.
NoHash ==
    [sessionId |-> 0, agentId |-> 0, workspaceId |-> 0, pid |-> <<>>,
     status |-> "", lastHeartbeat |-> "", terminatedAt |-> ""]
\* The null getSession returns.
Null ==
    [sessionId |-> -1, agentId |-> 0, workspaceId |-> 0, pid |-> 0,
     status |-> "", lastHeartbeat |-> "", terminatedAt |-> ""]
NoCall == [op |-> "none", pc |-> "returned", id |-> 0, m |-> Null]

\* An empty store, no service call made.
InitStore ==
    /\ sessionKey = [s \in StoreIds |-> NoHash]
    /\ sessionTtl = [s \in StoreIds |-> FALSE]
    /\ workspaceKey = [w \in Workspaces |-> {}]
    /\ agentKey = [a \in Agents |-> NoSession]
    /\ storeCall = NoCall
    /\ storeCalls = 0
    /\ stored = [s \in StoreIds |-> Null]

\* No routeTask call is made in the specifications of the other components.
NoRequest ==
    [taskType |-> "", requiresTools |-> FALSE, requiresVision |-> FALSE,
     requiresStreaming |-> FALSE, contextSizeTokens |-> 0,
     forceModel |-> "", forceProvider |-> ""]
NoConfig == [enabledProviders |-> {}, preset |-> "auto", taskOverrides |-> <<>>]
NoOutcome ==
    [kind |-> "none", selectedModel |-> "", provider |-> "", reason |-> "",
     estimatedCost |-> 0, alternatives |-> <<>>, attemptedModels |-> <<>>]

InitNoRouter ==
    /\ catalog = <<>>
    /\ registryDown = FALSE
    /\ registryEnabled = {}
    /\ rtRequest = NoRequest
    /\ rtConfig = NoConfig
    /\ rtCalls = 0
    /\ rtFirst = NoOutcome
    /\ rtLast = NoOutcome

\* A provider that has not been asked for anything yet.
NoError == [type |-> "", retryable |-> FALSE]
InitProvider ==
    /\ pvOp = "none"
    /\ pvPc = "idle"
    /\ pvAttempt = 0
    /\ pvCalls = 0
    /\ pvErrors = <<>>
    /\ pvThrown = NoError
    /\ pvOps = 0

\* No getAllSessionIds call is made in the specifications of the other
\* components.
InitNoScan ==
    /\ keyspace = <<>>
    /\ scPc = "idle"
    /\ scCursor = 0
    /\ scIterations = 0
    /\ scIds = <<>>

\* An empty cache.
InitCache ==
    /\ cache = <<>>
    /\ cfNow = 0
    /\ cfInFlight = [u \in Urls |-> 0]
    /\ cfCalls = 0
    /\ cfStores = 0

\* No publishWithRetry under observation.
InitRetry ==
    /\ pwConfig = [retryAttempts |-> 1, retryDelayMs |-> 100]
    /\ pwPc = "idle"
    /\ pwAttempt = 0
    /\ pwNow = 0
    /\ pwDelays = <<>>
    /\ pwTimeouts = 0
    /\ pwResult = "none"
    /\ pwCalls = 0

\* No publisher with a clock yet.
InitBatch ==
    /\ bwMaxBatchSize = 0
    /\ bwNow = 0
    /\ bwPending = <<>>
    /\ bwTimerDue = 0
    /\ bwInFlight = FALSE
    /\ bwWaiters = 0
    /\ bwFlushes = <<>>

InitInner ==
    InitMod /\ InitHist /\ InitStore /\ InitProvider
    /\ InitNoScan
    /\ InitCache
    /\ InitRetry
    /\ InitBatch

InitOuter == InitInner /\ InitNoRouter

\* The initial state of the specifications of one component on its own.
InitAlone == InitSessWith(FALSE) /\ InitObj /\ InitPub /\ InitOuter

\* ------------------------------------------- SessionManager.createSession
\* An admission test that lets a call pass with the count at the cap.
createSessionAdmitsAtCap(currentCount) ==
    ~(currentCount > maxConcurrentSessions)

\* The admission test on the count read from the store.
createSessionAdmits(currentCount) == ~(currentCount >= maxConcurrentSessions)

\* createSession up to the reply of getWorkspaceSessionCount, count below
\* the cap: the call goes on.  The id it will generate names the call.
CreateSessionCount(a, w) ==
    /\ nextId <= MaxSessions
    /\ createSessionAdmits(getWorkspaceSessionCount(w))
    /\ cpc' = [cpc EXCEPT ![nextId] = "counted"]
    /\ agentOf' = [agentOf EXCEPT ![nextId] = a]
    /\ wsOf' = [wsOf EXCEPT ![nextId] = w]
    /\ peak' = [peak EXCEPT ![w] = Max(@, Cardinality(InFlightIn(w)) + 1)]
    /\ nextId' = nextId + 1
    /\ UNCHANGED <<restVars, procVars, mapVars, storeVars, bgDelete, termVars,
                   allVars, hmVars>>

\* Agent ids are interchangeable: a call comes from an agent the store or
\* an earlier call has named, or from the next one.
KnownAgents ==
    {agentOf[s] : s \in {x \in SessionIds : cpc[x] # "none"}}
       \cup {a \in Agents : agentPtr[a] # NoSession}
CallerAgents == {a \in Agents : \A b \in 1..(a - 1) : b \in KnownAgents}

\* The same step in a run that makes at most MaxCalls calls.
CreateSessionCall(a, w) ==
    /\ nextId <= MaxCalls
    /\ a \in CallerAgents
    /\ CreateSessionCount(a, w)

\* createSession with the count at or above the cap: it throws.
CreateSessionRejected(a, w) ==
    /\ ~createSessionAdmits(getWorkspaceSessionCount(w))
    /\ UNCHANGED vars

\* After the count: new ClaudeCodeSession, session.spawn (status becomes
\* 'running'), metadata, and the call of storeSession.
CreateSessionSpawn(s) ==
    /\ cpc[s] = "counted"
    /\ status' = [status EXCEPT ![s] = "running"]
    /\ cpc' = [cpc EXCEPT ![s] = "storing"]
    /\ UNCHANGED <<restVars, nextId, agentOf, wsOf, peak, signal, listeners,
                   mapVars, storeVars, bgDelete, termVars, allVars, hmVars>>

\* Redis has executed the commands of storeSession and createSession goes
\* on: sessions.set, agentToSession.set, startHeartbeat,
\* session.on('terminated', ...); it returns the session.
StoreSessionDone(s) ==
    /\ cpc[s] = "storing"
    /\ storeSession(s, agentOf[s], wsOf[s])
    /\ cpc' = [cpc EXCEPT ![s] = "done"]
    /\ sessions' = sessions \cup {s}
    /\ agentToSession' = [agentToSession EXCEPT ![agentOf[s]] = s]
    /\ listeners' = [listeners EXCEPT ![s] = @ \cup {"mgr"}]
    /\ UNCHANGED <<restVars, nextId, agentOf, wsOf, peak, status, signal,
                   bgDelete, termVars, allVars, hmVars>>

\* --------------------------------------------- SessionManager.cleanupSession
\* The synchronous part: sessions.delete(sessionId) and
\* agentToSession.delete(agentId); the deleteSession it then calls is
\* executed by the store later.
cleanupSessionMap(set, s) == set \ {s}
cleanupAgentMap(map, a) == [map EXCEPT ![a] = NoSession]

\* ------------------------------------- ClaudeCodeSession.handleExit (exit)
\* The child process exits (by itself or by a signal).  handleExit sets the
\* status and emits 'terminated'; the listeners run: the manager's
\* handleSessionTerminated (cleanup when the session is tracked), the
\* exitHandler of every waiting terminate() (it clears its SIGKILL timer and
\* resolves: terminateSession goes on to cleanupSession,
\* terminateAllSessions' then callback calls cleanupSession and, when it was
\* the last one, Promise.all resolves and the maps are cleared).
HandleExitStep(s) ==
    /\ status[s] = "running"
    /\ LET L == listeners[s]
           mgrCleans == "mgr" \in L /\ s \in sessions
           termResolved == L \cap TermCallers
           allResolved == "all" \in L
           cleaned == mgrCleans \/ termResolved # {} \/ allResolved
           allDone == allResolved /\ allWait \ {s} = {}
       IN
       /\ status' = [status EXCEPT ![s] = "terminated"]
       /\ signal' = [signal EXCEPT ![s] = "none"]
       /\ listeners' = [listeners EXCEPT ![s] = L \cap {"mgr"}]
       /\ sessions' = IF allDone THEN {}
                      ELSE IF cleaned THEN cleanupSessionMap(sessions, s)
                      ELSE sessions
       /\ agentToSession' =
             IF allDone THEN [a \in Agents |-> NoSession]
             ELSE IF cleaned THEN cleanupAgentMap(agentToSession, agentOf[s])
             ELSE agentToSession
       /\ bgDelete' = IF mgrCleans \/ allResolved THEN bgDelete \cup {s}
                      ELSE bgDelete
       /\ tpc' = [c \in TermCallers |->
                    IF c \in termResolved THEN "deleting" ELSE tpc[c]]
       /\ allWait' = IF allResolved THEN allWait \ {s} ELSE allWait
       /\ allPc' = IF allDone THEN "idle" ELSE allPc
    /\ UNCHANGED <<callVars, storeVars, tsid, twasRunning, hmVars>>

HandleExit(s) == HandleExitStep(s) /\ UNCHANGED restVars

\* The sigkillTimeout of terminate() fires while the process still runs:
\* SIGKILL.  (After the exit the timer is cleared or finds status
\* 'terminated' and does nothing.)
KillTimerFire(s) ==
    /\ status[s] = "running"
    /\ signal[s] = "SIGTERM"
    /\ signal' = [signal EXCEPT ![s] = "SIGKILL"]
    /\ UNCHANGED <<restVars, callVars, status, listeners, mapVars, storeVars,
                   bgDelete, termVars, allVars, hmVars>>

\* The heartbeat interval fires while the session runs: updateHeartbeat.
Heartbeat(s) ==
    /\ HeartbeatLive(s)
    /\ rec' = updateHeartbeat(s)
    /\ UNCHANGED <<restVars, callVars, procVars, mapVars, wsSet, agentPtr,
                   bgDelete, termVars, allVars, hmVars>>

\* Time passes: a record nobody refreshes (no running heartbeat, not written
\* a moment ago by a createSession still in flight, no deleteSession on its
\* way) gets a lastHeartbeat older than staleThreshold.
BecomeStale(s) ==
    /\ rec[s] # NoRec
    /\ ~rec[s].stale
    /\ ~HeartbeatLive(s)
    /\ s \in SessionIds => ~InFlight(s)
    /\ ~CleanupPending(s)
    /\ rec' = [rec EXCEPT ![s].stale = TRUE]
    /\ UNCHANGED <<restVars, callVars, procVars, mapVars, wsSet, agentPtr,
                   bgDelete, termVars, allVars, hmVars>>

\* The store executes a deleteSession that cleanupSession issued on behalf
\* of handleSessionTerminated or of terminateAllSessions' then callback.
BgDeleteDone(s) ==
    /\ s \in bgDelete
    /\ deleteSession(s)
    /\ bgDelete' = bgDelete \ {s}
    /\ UNCHANGED <<restVars, callVars, procVars, mapVars, termVars, allVars,
                   hmVars>>

\* ----------------------------------------- SessionManager.terminateSession
\* ClaudeCodeSession.terminate resolves at once, sending nothing, when the
\* session has no process or its status is 'terminated'.
terminateResolvesAtOnce(s) == status[s] = "terminated"

\* The signal state after terminate() sent SIGTERM and armed its timer.
afterSigterm(sig) == IF sig = "SIGKILL" THEN "SIGKILL" ELSE "SIGTERM"

\* terminateSession(s) by caller c for a tracked session, up to its first
\* wait: removeAllListeners('terminated'), then session.terminate(), which
\* either resolves at once (cleanupSession follows, deleteSession is
\* issued) or registers its exitHandler, sends SIGTERM and arms the SIGKILL
\* timer.
TerminateSessionStart(c, s) ==
    /\ tsid' = [tsid EXCEPT ![c] = s]
    /\ IF terminateResolvesAtOnce(s)
       THEN /\ listeners' = [listeners EXCEPT ![s] = {}]
            /\ tpc' = [tpc EXCEPT ![c] = "deleting"]
            /\ twasRunning' = [twasRunning EXCEPT ![c] = FALSE]
            /\ sessions' = cleanupSessionMap(sessions, s)
            /\ agentToSession' = cleanupAgentMap(agentToSession, agentOf[s])
            /\ UNCHANGED signal
       ELSE /\ listeners' = [listeners EXCEPT ![s] = {c}]
            /\ tpc' = [tpc EXCEPT ![c] = "exitWait"]
            /\ twasRunning' = [twasRunning EXCEPT ![c] = TRUE]
            /\ signal' = [signal EXCEPT ![s] = afterSigterm(@)]
            /\ UNCHANGED <<sessions, agentToSession>>

\* A caller other than the HealthMonitor calls terminateSession(s).
TerminateSession(s) ==
    /\ tpc["user"] = "idle"
    /\ s \in sessions
    /\ TerminateSessionStart("user", s)
    /\ UNCHANGED <<restVars, callVars, status, storeVars, bgDelete, allVars,
                   hmVars>>

\* terminateSession for an id that is not in the sessions map returns at once.
TerminateSessionUnknown(s) ==
    /\ tpc["user"] = "idle"
    /\ s \notin sessions
    /\ UNCHANGED vars

\* The store has executed the deleteSession of the call's cleanupSession:
\* terminateSession returns (to the HealthMonitor: its pass goes on).
TerminateSessionReturn(c) ==
    /\ tpc[c] = "deleting"
    /\ deleteSession(tsid[c])
    /\ tpc' = [tpc EXCEPT ![c] = "idle"]
    /\ tsid' = [tsid EXCEPT ![c] = NoSession]
    /\ twasRunning' = [twasRunning EXCEPT ![c] = FALSE]
    /\ hmPc' = IF c = "monitor" THEN "scanning" ELSE hmPc
    /\ UNCHANGED <<restVars, callVars, procVars, mapVars, bgDelete, allVars,
                   hmIds, staleSeen>>

\* ------------------------------------- SessionManager.terminateAllSessions
\* The call: session.terminate() for every tracked session (those already
\* terminated resolve at once and their then callback calls cleanupSession,
\* whose promise nobody awaits), then Promise.all; with nothing to wait for,
\* the maps are cleared and the call returns.
TerminateAllSessionsStep ==
    /\ allPc = "idle"
    /\ LET atOnce == {s \in sessions : terminateResolvesAtOnce(s)}
           waits == sessions \ atOnce
       IN
       /\ allWait' = waits
       /\ listeners' = [s \in SessionIds |->
                          IF s \in waits THEN listeners[s] \cup {"all"}
                          ELSE listeners[s]]
       /\ signal' = [s \in SessionIds |->
                       IF s \in waits THEN afterSigterm(signal[s])
                       ELSE signal[s]]
       /\ bgDelete' = bgDelete \cup atOnce
       /\ IF waits = {}
          THEN /\ allPc' = "idle"
               /\ sessions' = {}
               /\ agentToSession' = [a \in Agents |-> NoSession]
          ELSE /\ allPc' = "waiting"
               /\ sessions' = sessions \ atOnce
               /\ agentToSession' =
                     [a \in Agents |->
                        IF \E s \in atOnce : agentOf[s] = a THEN NoSession
                        ELSE agentToSession[a]]
    /\ UNCHANGED <<callVars, status, storeVars, termVars, hmVars>>

TerminateAllSessions == TerminateAllSessionsStep /\ UNCHANGED restVars

\* ------------------------------------------------------------ HealthMonitor
\* performHealthCheck begins: getAllSessionIds scans the cli:session:* keys.
HealthCheckStart ==
    /\ hmPc = "idle"
    /\ hmPc' = "scanning"
    /\ hmIds' = {s \in AllIds : rec[s] # NoRec}
    /\ UNCHANGED <<restVars, callVars, procVars, mapVars, storeVars, bgDelete,
                   termVars, allVars, staleSeen>>

\* The stale test of performHealthCheck on the metadata getSession returned.
isStale(metadata) ==
    /\ metadata # NoRec
    /\ metadata.status # "terminated"
    /\ metadata.stale

\* One iteration of the loop: getSession; a missing or terminated record is
\* skipped; a stale one is counted and handed to handleStaleSession, which
\* emits cli:session_stale and awaits terminateSession (a no-op for an id
\* that is not in the sessions map).
HealthCheckExamine(s) ==
    /\ hmPc = "scanning"
    /\ s \in hmIds
    /\ hmIds' = hmIds \ {s}
    /\ IF ~isStale(rec[s])
       THEN UNCHANGED <<staleSeen, hmPc, procVars, mapVars, termVars>>
       ELSE /\ staleSeen' = staleSeen \cup {s}
            /\ IF s \notin sessions
               THEN UNCHANGED <<hmPc, procVars, mapVars, termVars>>
               ELSE /\ TerminateSessionStart("monitor", s)
                    /\ hmPc' = "terminating"
                    /\ UNCHANGED status
    /\ UNCHANGED <<restVars, callVars, storeVars, bgDelete, allVars>>

\* The loop is over: health_check_complete is emitted.
HealthCheckComplete ==
    /\ hmPc = "scanning"
    /\ hmIds = {}
    /\ hmPc' = "idle"
    /\ UNCHANGED <<restVars, callVars, procVars, mapVars, storeVars, bgDelete,
                   termVars, allVars, hmIds, staleSeen>>

\* ------------------------------------------- HealthMonitor: errors absorbed
\* getAllSessionIds throws: the catch of performHealthCheck logs, the pass
\* examines nothing and health_check_complete is emitted.
HealthCheckStartFails ==
    /\ hmPc = "idle"
    /\ UNCHANGED vars

\* getSession throws inside the loop: the same catch, which is around the
\* whole loop, ends the pass; health_check_complete is emitted.
HealthCheckExamineFails(s) ==
    /\ hmPc = "scanning"
    /\ s \in hmIds
    /\ hmIds' = {}
    /\ hmPc' = "idle"
    /\ UNCHANGED <<restVars, callVars, procVars, mapVars, storeVars, bgDelete,
                   termVars, allVars, staleSeen>>

\* The updateHeartbeat calls of a running session fail (handleHeartbeat logs
\* each error) for longer than staleThreshold: its record goes stale.
HeartbeatFails(s) ==
    /\ HeartbeatLive(s)
    /\ rec[s] # NoRec
    /\ ~rec[s].stale
    /\ rec' = [rec EXCEPT ![s].stale = TRUE]
    /\ UNCHANGED <<restVars, callVars, procVars, mapVars, wsSet, agentPtr,
                   bgDelete, termVars, allVars, hmVars>>

\* handleStaleSession for a tracked session whose process cannot be
\* signalled: terminateSession has removed the 'terminated' listeners,
\* process.kill reports the error on the child, the session re-emits it as
\* 'error', which has no listener, so terminate() rejects.  The catch of
\* handleStaleSession logs and calls updateStatus(id, 'terminated').
HealthCheckTerminateFails(s) ==
    /\ hmPc = "scanning"
    /\ s \in hmIds
    /\ isStale(rec[s])
    /\ s \in sessions
    /\ ~terminateResolvesAtOnce(s)
    /\ hmIds' = hmIds \ {s}
    /\ staleSeen' = staleSeen \cup {s}
    /\ listeners' = [listeners EXCEPT ![s] = {}]
    /\ tsid' = [tsid EXCEPT !["monitor"] = s]
    /\ hmPc' = "updating"
    /\ UNCHANGED <<restVars, callVars, status, signal, mapVars, storeVars,
                   bgDelete, tpc, twasRunning, allVars>>

\* The first HSET of that updateStatus is executed, or fails (the inner
\* catch logs and the loop goes on).
HealthCheckUpdateStatus(ok) ==
    /\ hmPc = "updating"
    /\ IF ok
       THEN /\ rec' = [rec EXCEPT ![tsid["monitor"]] = updateStatusHsetStatus(@)]
            /\ hmPc' = "stamping"
            /\ UNCHANGED tsid
       ELSE /\ hmPc' = "scanning"
            /\ tsid' = [tsid EXCEPT !["monitor"] = NoSession]
            /\ UNCHANGED rec
    /\ UNCHANGED <<restVars, callVars, procVars, mapVars, wsSet, agentPtr,
                   bgDelete, tpc, twasRunning, allVars, hmIds, staleSeen>>

\* The second HSET (terminatedAt) is executed, or fails likewise.
HealthCheckUpdateTerminatedAt(ok) ==
    /\ hmPc = "stamping"
    /\ rec' = IF ok
              THEN [rec EXCEPT ![tsid["monitor"]] =
                                   updateStatusHsetTerminatedAt(@)]
              ELSE rec
    /\ hmPc' = "scanning"
    /\ tsid' = [tsid EXCEPT !["monitor"] = NoSession]
    /\ UNCHANGED <<restVars, callVars, procVars, mapVars, wsSet, agentPtr,
                   bgDelete, tpc, twasRunning, allVars, hmIds, staleSeen>>

\* ------------------------------------------------------------ specification
Init == InitSess /\ InitObj /\ InitPub /\ InitOuter

Next ==
    \/ \E a \in Agents, w \in Workspaces : CreateSessionCall(a, w)
    \/ \E a \in Agents, w \in Workspaces : CreateSessionRejected(a, w)
    \/ \E s \in SessionIds : CreateSessionSpawn(s)
    \/ \E s \in SessionIds : StoreSessionDone(s)
    \/ \E s \in SessionIds : HandleExit(s)
    \/ \E s \in SessionIds : KillTimerFire(s)
    \/ \E s \in SessionIds : Heartbeat(s)
    \/ \E s \in AllIds : BecomeStale(s)
    \/ \E s \in SessionIds : BgDeleteDone(s)
    \/ \E s \in SessionIds : TerminateSession(s)
    \/ \E s \in AllIds : TerminateSessionUnknown(s)
    \/ \E c \in TermCallers : TerminateSessionReturn(c)
    \/ TerminateAllSessions
    \/ HealthCheckStart
    \/ \E s \in AllIds : HealthCheckExamine(s)
    \/ HealthCheckComplete

Spec == Init /\ [][Next]_vars

\* Admission: MaxSessions createSession calls (all for one agent: the
\* admission test does not look at the agent), process exits,
\* terminateSession and the cleanup they cause, on an empty store.
NextAdmit ==
    \/ \E w \in Workspaces : CreateSessionCount(1, w)
    \/ \E w \in Workspaces : CreateSessionRejected(1, w)
    \/ \E s \in SessionIds : CreateSessionSpawn(s)
    \/ \E s \in SessionIds : StoreSessionDone(s)
    \/ \E s \in SessionIds : HandleExit(s)
    \/ \E s \in SessionIds : KillTimerFire(s)
    \/ \E s \in SessionIds : BgDeleteDone(s)
    \/ \E s \in SessionIds : TerminateSession(s)
    \/ \E c \in TermCallers : TerminateSessionReturn(c)

SpecAdmit == InitAlone /\ [][NextAdmit]_vars

\* The HealthMonitor with a store and processes that can fail: sessions are
\* created, run, go stale and exit; every store call of a pass and the
\* signalling of a process may fail.
NextMonitor ==
    \/ \E a \in Agents, w \in Workspaces : CreateSessionCall(a, w)
    \/ \E s \in SessionIds : CreateSessionSpawn(s)
    \/ \E s \in SessionIds : StoreSessionDone(s)
    \/ \E s \in SessionIds : HandleExit(s)
    \/ \E s \in SessionIds : KillTimerFire(s)
    \/ \E s \in SessionIds : Heartbeat(s)
    \/ \E s \in SessionIds : HeartbeatFails(s)
    \/ \E s \in AllIds : BecomeStale(s)
    \/ \E s \in SessionIds : BgDeleteDone(s)
    \/ \E c \in TermCallers : TerminateSessionReturn(c)
    \/ HealthCheckStart
    \/ HealthCheckStartFails
    \/ \E s \in AllIds : HealthCheckExamine(s)
    \/ \E s \in AllIds : HealthCheckExamineFails(s)
    \/ \E s \in SessionIds : HealthCheckTerminateFails(s)
    \/ \E ok \in BOOLEAN : HealthCheckUpdateStatus(ok)
    \/ \E ok \in BOOLEAN : HealthCheckUpdateTerminatedAt(ok)
    \/ HealthCheckComplete

SpecMonitor == Init /\ [][NextMonitor]_vars

C2_OneLiveSessionPerAgent ==
    \A a \in Agents :
       Cardinality({s \in sessions :
                      status[s] = "running" /\ agentOf[s] = a}) <= 1

\* ================================================= one ClaudeCodeSession
\* The status spawn() leaves.
statusAfterSpawn(st) == "running"

\* (a terminate() that marks the session terminated whatever its state)
statusAlwaysTerminated(st, proc) == "terminated"

\* The status terminate() leaves: 'terminated' when there is no process or
\* the status is 'terminated' already, else unchanged until the exit.
statusAfterTerminate(st, proc) ==
    IF proc = "null" \/ st = "terminated" THEN "terminated" ELSE st

\* ClaudeCodeSession.spawn: throws when a process exists and the status is
\* 'running'; else starts the child, status 'running', lineNumber 0.
SessionSpawn ==
    /\ ~(oProcess # "null" /\ oStatus = "running")
    /\ oSpawns < MaxSpawns
    /\ oProcess' = "alive"
    /\ oStatus' = statusAfterSpawn(oStatus)
    /\ oLineNumber' = 0
    /\ oSpawns' = oSpawns + 1
    /\ oSignal' = "none"
    /\ oUnread' = 0
    /\ UNCHANGED <<sessVars, outerVars, pubVars, oLastType, oWaiters, oTimers,
                   oHeard>>

\* spawn() on a session with a running process throws.
SessionSpawnThrows ==
    /\ oProcess # "null" /\ oStatus = "running"
    /\ UNCHANGED vars

\* The child writes a line to its stdout or stderr pipe.
SessionProcessWrites ==
    /\ oProcess = "alive"
    /\ oLineNumber + oUnread < MaxLines
    /\ oUnread' = oUnread + 1
    /\ UNCHANGED <<sessVars, outerVars, pubVars, oStatus, oProcess,
                   oLineNumber, oLastType, oSpawns, oWaiters, oTimers, oSignal,
                   oHeard>>

\* The event an emission with the next line number leaves in the log.
emitOutput(log, lineNumber) == Append(log, lineNumber)

\* handleOutputLine: readline hands over a line the child wrote to stdout
\* or stderr; the output event carries the incremented lineNumber.
SessionHandleOutputLine(type) ==
    /\ oProcess = "alive"
    /\ oUnread > 0
    /\ oUnread' = oUnread - 1
    /\ oLineNumber' = oLineNumber + 1
    /\ oLastType' = type
    /\ oLog' = emitOutput(oLog, oLineNumber + 1)
    /\ UNCHANGED <<sessVars, outerVars, pubVars, oStatus, oProcess, oSpawns,
                   oWaiters, oTimers, oSignal, oNotified>>

\* sendCommand: throws unless a process exists and the status is 'running';
\* else emits a command event with the next line number.
SessionSendCommand ==
    /\ ~(oProcess = "null" \/ oStatus # "running")
    /\ oLineNumber + oUnread < MaxLines
    /\ oLineNumber' = oLineNumber + 1
    /\ oLastType' = "command"
    /\ oLog' = emitOutput(oLog, oLineNumber + 1)
    /\ UNCHANGED <<sessVars, outerVars, pubVars, oStatus, oProcess, oSpawns,
                   oWaiters, oTimers, oSignal, oUnread, oNotified>>

SessionSendCommandThrows ==
    /\ oProcess = "null" \/ oStatus # "running"
    /\ UNCHANGED vars

\* terminate(): without a process or with status 'terminated' it sets the
\* status to 'terminated' and resolves; else it registers its exitHandler,
\* sends SIGTERM and arms its sigkillTimeout.
SessionTerminate ==
    /\ oStatus' = statusAfterTerminate(oStatus, oProcess)
    /\ IF oProcess = "null" \/ oStatus = "terminated"
       THEN UNCHANGED <<oWaiters, oTimers, oSignal>>
       ELSE /\ oWaiters < MaxWaiters
            /\ oWaiters' = oWaiters + 1
            /\ oTimers' = oTimers + 1
            /\ oSignal' = afterSigterm(oSignal)
    /\ UNCHANGED <<sessVars, outerVars, pubVars, oProcess, oLineNumber,
                   oLastType, oSpawns, oUnread, oHeard>>

\* A sigkillTimeout fires: SIGKILL when a process exists and the status is
\* not 'terminated'.
SessionSigkillTimeout ==
    /\ oTimers > 0
    /\ oTimers' = oTimers - 1
    /\ oSignal' = IF oProcess # "null" /\ oStatus # "terminated"
                  THEN "SIGKILL" ELSE oSignal
    /\ UNCHANGED <<sessVars, outerVars, pubVars, oStatus, oProcess,
                   oLineNumber, oLastType, oSpawns, oWaiters, oUnread, oHeard>>

\* The 'exit' event of the child (its pipes may still hold lines readline
\* has not read): handleExit sets status 'terminated', closes the readline
\* interfaces (what is unread stays unread), emits the exit output event
\* with the next line number and then 'terminated'; every waiting
\* exitHandler clears its timer and resolves its terminate().
SessionHandleExit ==
    /\ oProcess = "alive"
    /\ oProcess' = "exited"
    /\ oStatus' = "terminated"
    /\ oUnread' = 0
    /\ oLineNumber' = oLineNumber + 1
    /\ oLastType' = "exit"
    /\ oLog' = emitOutput(oLog, oLineNumber + 1)
    /\ oNotified' = oNotified + 1
    /\ oWaiters' = 0
    /\ oTimers' = 0
    /\ UNCHANGED <<sessVars, outerVars, pubVars, oSpawns, oSignal>>

NextSession ==
    \/ SessionSpawn
    \/ SessionSpawnThrows
    \/ SessionProcessWrites
    \/ \E type \in {"stdout", "stderr"} : SessionHandleOutputLine(type)
    \/ SessionSendCommand
    \/ SessionSendCommandThrows
    \/ SessionTerminate
    \/ SessionSigkillTimeout
    \/ SessionHandleExit

SpecSession == InitAlone /\ [][NextSession]_vars

\* ------------------------------------------------------------------ C3
\* C3 as stated: the status changes only from idle to running and from
\* running to terminated.
C3_OnlyTwoTransitions ==
    [][oStatus' # oStatus =>
         \/ oStatus = "idle" /\ oStatus' = "running"
         \/ oStatus = "running" /\ oStatus' = "terminated"]_vars

\* C3 (amended): the status changes only from idle or terminated to running
\* by a successful spawn, from running to terminated by the exit of the
\* process, and from idle to terminated by a terminate() on a session that
\* has no process.
C3_StatusTransitions ==
    [][oStatus' # oStatus =>
         \/ /\ oStatus \in {"idle", "terminated"}
            /\ oStatus' = "running"
            /\ oSpawns' = oSpawns + 1
         \/ /\ oStatus = "running"
            /\ oStatus' = "terminated"
            /\ oProcess = "alive" /\ oProcess' = "exited"
         \/ /\ oStatus = "idle"
            /\ oStatus' = "terminated"
            /\ oProcess = "null" /\ oProcess' = "null"]_vars

\* terminate() has marked a session terminated that never had a process.
C3_Witness == oStatus = "terminated" /\ oProcess = "null"

\* ==================================================== CliOutputPublisher
Range(f) == {f[i] : i \in DOMAIN f}

\* scheduleBatchFlush: the value of batchTimer after the call.
scheduleBatchFlush(timer, shuttingDown) ==
    IF timer \/ shuttingDown THEN timer ELSE TRUE

\* (a publishWithRetry whose loop makes one attempt more)
attemptFailedStateOneMore(a) == IF a < retryAttempts THEN "backoff" ELSE "failed"
\* publishWithRetry after attempt a failed: a backoff delay and another
\* attempt, or, after the last attempt, the failure is counted.
attemptFailedState(a) == IF a < retryAttempts - 1 THEN "backoff" ELSE "failed"

\* flush() past its checks: it clears the timer, takes the lock, takes all
\* of pendingEvents (P) and starts publishWithRetry for each event in
\* order, each sending its first PUBLISH on the connection (q).
StartFlush(k, P, ev, q) ==
    /\ batchTimer' = FALSE
    /\ isFlushInProgress' = TRUE
    /\ batch' = P
    /\ pendingEvents' = <<>>
    /\ owner' = k
    /\ evState' = [e \in Events |-> IF e \in Range(P) THEN "sending" ELSE ev[e]]
    /\ attempt' = [e \in Events |-> IF e \in Range(P) THEN 0 ELSE attempt[e]]
    /\ redisQ' = q \o [i \in 1..Len(P) |-> <<P[i], 0>>]

\* (a flush() that never awaits the flush in progress)
flushNeverWaits(inProgress) == FALSE
\* flush()'s first check: isFlushInProgress && flushPromise (the two are
\* set and cleared together).
flushAwaitsFlushPromise(inProgress) == inProgress

\* flush() called by k with pendingEvents P and batchTimer tm: with a flush
\* in progress it awaits flushPromise; with nothing pending it returns;
\* else it starts a flush.
Flush(k, P, ev, tm) ==
    IF flushAwaitsFlushPromise(isFlushInProgress)
    THEN /\ waiters' = Append(waiters, k)
         /\ pendingEvents' = P
         /\ evState' = ev
         /\ batchTimer' = tm
         /\ UNCHANGED <<isFlushInProgress, batch, owner, attempt, redisQ>>
    ELSE IF P = <<>>
    THEN /\ pendingEvents' = P
         /\ evState' = ev
         /\ batchTimer' = tm
         /\ UNCHANGED <<isFlushInProgress, batch, owner, waiters, attempt,
                        redisQ>>
    ELSE /\ StartFlush(k, P, ev, redisQ)
         /\ UNCHANGED waiters

\* publish(): push the event; flush at maxBatchSize, else schedule.
Publish ==
    /\ nextEv <= MaxEvents
    /\ nextEv' = nextEv + 1
    /\ LET P == Append(pendingEvents, nextEv)
           ev == [evState EXCEPT ![nextEv] = "pending"]
       IN IF Len(P) >= maxBatchSize
          THEN Flush("publish", P, ev, batchTimer)
          ELSE /\ pendingEvents' = P
               /\ evState' = ev
               /\ batchTimer' = scheduleBatchFlush(batchTimer, isShuttingDown)
               /\ UNCHANGED <<isFlushInProgress, batch, owner, waiters,
                              attempt, redisQ>>
    /\ UNCHANGED <<sessVars, outerVars, objVars, isShuttingDown, channel,
                   eventsPublished, publishFailures, sdPc, sdMark>>

\* The batch timer fires: batchTimer = null, then flush().
BatchTimerFire ==
    /\ batchTimer
    /\ Flush("timer", pendingEvents, evState, FALSE)
    /\ UNCHANGED <<sessVars, outerVars, objVars, nextEv, isShuttingDown, channel,
                   eventsPublished, publishFailures, sdPc, sdMark>>

\* shutdown(): isShuttingDown, timer cleared, flush(); it returns when that
\* flush() returns.
ShutdownStep ==
    /\ ~isShuttingDown
    /\ isShuttingDown' = TRUE
    /\ sdMark' = nextEv - 1
    /\ Flush("shutdown", pendingEvents, evState, FALSE)
    /\ sdPc' = IF ~isFlushInProgress /\ pendingEvents = <<>>
               THEN "returned" ELSE "waiting"
    /\ UNCHANGED <<nextEv, channel, eventsPublished, publishFailures>>

Shutdown == ShutdownStep /\ UNCHANGED <<sessVars, outerVars, objVars>>

\* The end of a handler that settled an attempt (ev2, q2, f2: evState,
\* redisQ and publishFailures after it).  When every publishWithRetry of
\* the batch has returned, Promise.all resolves: updateMetrics, the lock
\* is released, the finally block schedules a timer for events that came
\* in meanwhile (unless shutting down), the flush() that started the flush
\* returns, and the flush() calls that awaited flushPromise resume in
\* order: the first one that finds events pending starts the next flush
\* and awaits it, every other one finds none and returns.
Finish(ev2, q2, f2) ==
    LET done == /\ isFlushInProgress
                /\ \A i \in 1..Len(batch) : ev2[batch[i]] \in {"ok", "failed"}
        tm == IF pendingEvents # <<>> /\ ~isShuttingDown
              THEN scheduleBatchFlush(batchTimer, isShuttingDown)
              ELSE batchTimer
        resume == waiters # <<>> /\ pendingEvents # <<>>
        sdReturns ==
            \/ owner = "shutdown"
            \/ \E i \in 1..Len(waiters) :
                  waiters[i] = "shutdown" /\ ~(resume /\ i = 1)
    IN
    /\ publishFailures' = f2
    /\ IF ~done
       THEN /\ evState' = ev2
            /\ redisQ' = q2
            /\ UNCHANGED <<pendingEvents, batchTimer, isFlushInProgress,
                           batch, owner, waiters, attempt, eventsPublished,
                           sdPc>>
       ELSE /\ eventsPublished' = eventsPublished + Len(batch)
            /\ waiters' = <<>>
            /\ sdPc' = IF sdReturns THEN "returned" ELSE sdPc
            /\ IF resume
               THEN StartFlush(Head(waiters), pendingEvents, ev2, q2)
               ELSE /\ evState' = ev2
                    /\ redisQ' = q2
                    /\ batchTimer' = tm
                    /\ isFlushInProgress' = FALSE
                    /\ batch' = <<>>
                    /\ owner' = "none"
                    /\ UNCHANGED <<pendingEvents, attempt>>

\* Redis executes the oldest PUBLISH of the connection: it delivers the
\* message to the channel and replies, or replies with an error.  The reply
\* settles the attempt that sent the command, unless that attempt has timed
\* out meanwhile.
RedisExecuteStep(ok) ==
    /\ redisQ # <<>>
    /\ LET e == Head(redisQ)[1]
           current == evState[e] = "sending" /\ attempt[e] = Head(redisQ)[2]
           after == IF ok THEN "ok" ELSE attemptFailedState(attempt[e])
           ev2 == IF current THEN [evState EXCEPT ![e] = after] ELSE evState
           f2 == IF current /\ after = "failed"
                 THEN publishFailures + 1 ELSE publishFailures
       IN /\ channel' = IF ok THEN Append(channel, e) ELSE channel
          /\ Finish(ev2, Tail(redisQ), f2)
    /\ UNCHANGED <<nextEv, isShuttingDown, sdMark>>

RedisExecute(ok) ==
    RedisExecuteStep(ok) /\ UNCHANGED <<sessVars, outerVars, objVars>>

\* The publishTimeoutMs timer of an attempt wins the race against the
\* reply: the attempt has failed; its command stays on the connection.
PublishTimeoutStep(e) ==
    /\ evState[e] = "sending"
    /\ LET after == attemptFailedState(attempt[e])
       IN Finish([evState EXCEPT ![e] = after], redisQ,
                 IF after = "failed" THEN publishFailures + 1
                 ELSE publishFailures)
    /\ UNCHANGED <<nextEv, isShuttingDown, channel, sdMark>>

PublishTimeout(e) ==
    PublishTimeoutStep(e) /\ UNCHANGED <<sessVars, outerVars, objVars>>

\* The backoff delay of publishWithRetry is over: the next attempt.
BackoffDone(e) ==
    /\ evState[e] = "backoff"
    /\ evState' = [evState EXCEPT ![e] = "sending"]
    /\ attempt' = [attempt EXCEPT ![e] = @ + 1]
    /\ redisQ' = Append(redisQ, <<e, attempt[e] + 1>>)
    /\ UNCHANGED <<sessVars, outerVars, objVars, nextEv, pendingEvents, batchTimer,
                   isShuttingDown, isFlushInProgress, batch, owner, waiters,
                   channel, eventsPublished, publishFailures, sdPc, sdMark>>

NextPub ==
    \/ Publish
    \/ BatchTimerFire
    \/ Shutdown
    \/ \E ok \in BOOLEAN : RedisExecute(ok)
    \/ \E e \in Events : PublishTimeout(e)
    \/ \E e \in Events : BackoffDone(e)

SpecPub == InitAlone /\ [][NextPub]_vars

\* Fairness: an armed timer fires, Redis executes what it was sent, a
\* backoff delay ends.
SpecPubFair ==
    /\ SpecPub
    /\ WF_vars(BatchTimerFire)
    /\ WF_vars(\E ok \in BOOLEAN : RedisExecute(ok))
    /\ WF_vars(\E e \in Events : BackoffDone(e))

\* ------------------------------------------------------------------ C4
\* C4: every event publish() has accepted is eventually published (its
\* publishWithRetry succeeded) or counted in publishFailures.
C4_AcceptedEventuallySettled ==
    \A e \in Events :
       (evState[e] # "none") ~> (evState[e] \in {"ok", "failed"})

\* The events accepted before shutdown() was called are all settled.
AcceptedBeforeShutdownSettled ==
    \A e \in Events :
       (evState[e] # "none" /\ (~isShuttingDown \/ e <= sdMark))
          ~> (evState[e] \in {"ok", "failed"})

\* ------------------------------------------------------------------ C5
\* C5: the events of the session arrive on the channel in enqueue
\* (lineNumber) order.
C5_ChannelInEnqueueOrder ==
    \A i, j \in 1..Len(channel) : i < j => channel[i] <= channel[j]

\* ----------------------------------------------------------------- C10
\* C10: when shutdown() returns, every event enqueued before the call has
\* finished its publish attempts (so no flush holding such an event is
\* still in flight), also when the call found a flush in progress or other
\* flush() calls waiting.
C10_StepsOfShutdown ==
    (sdPc # "returned" /\ sdPc' = "returned")
       => \A e \in Events :
             e <= sdMark' => evState'[e] \in {"ok", "failed"}

C10_ShutdownReturnsDrained == [][C10_StepsOfShutdown]_vars

\* -------------------------------------------------- what the store refers to
\* Session s is gone from the in-memory maps.
Untracked(s) ==
    /\ s \notin sessions
    /\ \A a \in Agents : agentToSession[a] # s

\* Session s is gone from the store: no record, no workspace-set
\* membership, no agent pointer.
Unstored(s) ==
    /\ rec[s] = NoRec
    /\ \A w \in Workspaces : s \notin wsSet[w]
    /\ \A a \in Agents : agentPtr[a] # s

\* Fairness: timers fire, Redis answers, a process that was sent SIGKILL
\* exits, an unrefreshed heartbeat timestamp ages, and the HealthMonitor's
\* interval keeps starting passes.
SpecFair ==
    /\ Spec
    /\ WF_vars(HealthCheckStart)
    /\ WF_vars(\E s \in AllIds : HealthCheckExamine(s))
    /\ WF_vars(HealthCheckComplete)
    /\ WF_vars(\E s \in SessionIds : BgDeleteDone(s))
    /\ WF_vars(\E c \in TermCallers : TerminateSessionReturn(c))
    /\ WF_vars(\E s \in SessionIds : KillTimerFire(s))
    /\ WF_vars(\E s \in SessionIds : signal[s] = "SIGKILL" /\ HandleExit(s))
    /\ WF_vars(\E s \in AllIds : BecomeStale(s))

\* ------------------------------------------------------------------ C6
\* C6: terminateSession on a tracked running session sends SIGTERM (and
\* arms the SIGKILL timer, which sends SIGKILL when it fires before the
\* exit); while the call waits for the exit of a process that still runs a
\* signal has been sent; the call goes on to its cleanup only through the
\* exit of the process, and it returns only with the process exited and the
\* session removed from the in-memory maps and from the store.
C6_WaitingCallHasSignalled ==
    \A c \in TermCallers :
       (tpc[c] = "exitWait" /\ status[tsid[c]] = "running")
          => signal[tsid[c]] \in {"SIGTERM", "SIGKILL"}

C6_StepsOfTheCall ==
    \A c \in TermCallers, s \in SessionIds :
       /\ (tpc[c] = "idle" /\ tpc'[c] = "exitWait" /\ tsid'[c] = s)
             => /\ status[s] = "running"
                /\ signal'[s] = afterSigterm(signal[s])
       /\ (tpc[c] = "exitWait" /\ tpc'[c] = "deleting" /\ tsid[c] = s)
             => /\ status[s] = "running"
                /\ status'[s] = "terminated"
       /\ (tpc[c] = "deleting" /\ twasRunning[c] /\ tpc'[c] = "idle"
              /\ tsid[c] = s)
             => /\ status'[s] = "terminated"
                /\ Untracked(s)'
                /\ Unstored(s)'

C7_StepsOfTheCall ==
    (allPc = "waiting" /\ allPc' = "idle")
       => \A s \in allWait :
             /\ status'[s] = "terminated"
             /\ Untracked(s)'
             /\ Unstored(s)'

C7_TerminateAllReturnsAfterCleanup == [][C7_StepsOfTheCall]_vars

\* ------------------------------------------------------------------ C8
\* C8: once a pass of the HealthMonitor has counted the record of a session
\* as stale and handled it, no later pass counts it as stale again,
\* whether or not the session is tracked.
C8_CountedStaleInThisStep(s) ==
    /\ hmPc = "scanning"
    /\ s \in hmIds
    /\ s \notin hmIds'
    /\ isStale(rec[s])

C8_StaleCountedOnce ==
    [][\A s \in AllIds : s \in staleSeen => ~C8_CountedStaleInThisStep(s)]_vars

\* ------------------------------------------------------------------ C9
\* C9: a workspace-set membership or agent pointer of a session whose
\* record went stale is eventually removed.
C9_StaleReferencesRemoved ==
    \A s \in AllIds :
       /\ \A w \in Workspaces :
             (isStale(rec[s]) /\ s \in wsSet[w]) ~> (s \notin wsSet[w])
       /\ \A a \in Agents :
             (isStale(rec[s]) /\ agentPtr[a] = s) ~> (agentPtr[a] # s)

\* ============================================================ the CLI module
\* publish() calls of one run of the module specification.
MaxModuleEvents == 1

\* redisClient.quit() has not been called: the connection is open.  After
\* it the module instance is discarded.
ModuleOpen == modPc # "closed"

\* shutdownCliModule from the return of outputPublisher.shutdown():
\* terminateAllSessions is called; when it returns at once (no session has
\* to be waited for), redisClient.quit() follows in the same run.
ModuleTerminateAll ==
    /\ TerminateAllSessionsStep
    /\ allIssued' = {s \in sessions : terminateResolvesAtOnce(s)}
    /\ modPc' = IF allPc' = "idle" THEN "closed" ELSE "terminating"

\* shutdownCliModule is called: healthMonitor.stop() (isRunning false, the
\* interval cleared; a pass in progress goes on), outputPublisher.shutdown()
\* and, when that returns at once, the rest as above.
ShutdownCliModule ==
    /\ modPc = "up"
    /\ hmRunning' = FALSE
    /\ ShutdownStep
    /\ IF sdPc' = "returned"
       THEN ModuleTerminateAll
       ELSE /\ modPc' = "draining"
            /\ UNCHANGED <<sessVars, allIssued>>
    /\ UNCHANGED <<objVars, sideVars>>

\* A handler of the publisher in the running module; when it makes the
\* shutdown() the module awaits return, shutdownCliModule goes on.
ModuleAfterPublisher ==
    /\ IF modPc = "draining" /\ sdPc' = "returned"
       THEN ModuleTerminateAll
       ELSE UNCHANGED <<sessVars, modPc, allIssued>>
    /\ UNCHANGED <<objVars, sideVars, hmRunning>>

ModRedisExecute(ok) ==
    ModuleOpen /\ RedisExecuteStep(ok) /\ ModuleAfterPublisher

ModPublishTimeout(e) ==
    ModuleOpen /\ PublishTimeoutStep(e) /\ ModuleAfterPublisher

\* The exit of a process in the running module; when it makes the
\* terminateAllSessions the module awaits return, redisClient.quit() follows.
ModHandleExit(s) ==
    /\ ModuleOpen
    /\ HandleExitStep(s)
    /\ modPc' = IF modPc = "terminating" /\ allPc' = "idle" THEN "closed"
                ELSE modPc
    /\ allIssued' = IF "all" \in listeners[s] THEN allIssued \cup {s}
                    ELSE allIssued
    /\ UNCHANGED <<objVars, pubVars, sideVars, hmRunning>>

\* The other handlers, which run as long as the connection is open.
ModPublish == ModuleOpen /\ nextEv <= MaxModuleEvents /\ Publish
ModBatchTimerFire == ModuleOpen /\ BatchTimerFire
ModBackoffDone(e) == ModuleOpen /\ BackoffDone(e)
ModCreateSessionCall(a, w) == ModuleOpen /\ CreateSessionCall(a, w)
ModCreateSessionSpawn(s) == ModuleOpen /\ CreateSessionSpawn(s)
ModStoreSessionDone(s) == ModuleOpen /\ StoreSessionDone(s)
ModKillTimerFire(s) == ModuleOpen /\ KillTimerFire(s)
ModHeartbeat(s) == ModuleOpen /\ Heartbeat(s)
ModBecomeStale(s) == ModuleOpen /\ BecomeStale(s)
ModBgDeleteDone(s) == ModuleOpen /\ BgDeleteDone(s)
ModTerminateSessionReturn(c) == ModuleOpen /\ TerminateSessionReturn(c)
\* The interval of the monitor fires only between start() and stop().
ModHealthCheckStart == ModuleOpen /\ hmRunning /\ HealthCheckStart
ModHealthCheckExamine(s) == ModuleOpen /\ HealthCheckExamine(s)
ModHealthCheckComplete == ModuleOpen /\ HealthCheckComplete

NextModule ==
    \/ ShutdownCliModule
    \/ \E ok \in BOOLEAN : ModRedisExecute(ok)
    \/ \E e \in Events : ModPublishTimeout(e)
    \/ \E s \in SessionIds : ModHandleExit(s)
    \/ ModPublish
    \/ ModBatchTimerFire
    \/ \E e \in Events : ModBackoffDone(e)
    \/ \E a \in Agents, w \in Workspaces : ModCreateSessionCall(a, w)
    \/ \E s \in SessionIds : ModCreateSessionSpawn(s)
    \/ \E s \in SessionIds : ModStoreSessionDone(s)
    \/ \E s \in SessionIds : ModKillTimerFire(s)
    \/ \E s \in SessionIds : ModHeartbeat(s)
    \/ \E s \in AllIds : ModBecomeStale(s)
    \/ \E s \in SessionIds : ModBgDeleteDone(s)
    \/ \E c \in TermCallers : ModTerminateSessionReturn(c)
    \/ ModHealthCheckStart
    \/ \E s \in AllIds : ModHealthCheckExamine(s)
    \/ ModHealthCheckComplete

SpecModule == Init /\ [][NextModule]_vars

\* ----------------------------------------------------------------- C11
\* C11: module shutdown stops the HealthMonitor, then drains the publisher,
\* then runs terminateAllSessions, then closes the store connection, each
\* step after the one before has completed; when the connection is closed
\* every store operation those steps issued has completed: no deleteSession
\* of a terminated session and no publish of an event accepted before the
\* shutdown is outstanding.
C11_ShutdownCascadeCompletes ==
    /\ modPc # "up" => ~hmRunning
    /\ modPc \in {"terminating", "closed"} => sdPc = "returned"
    /\ modPc = "closed" =>
          /\ allPc = "idle"
          /\ sessions = {}
          /\ allIssued \cap bgDelete = {}
          /\ \A e \in Events : e <= sdMark => evState[e] \in {"ok", "failed"}

\* ----------------------------------------------------------------- C12
\* C12: a pass of the HealthMonitor never throws: an error from the store
\* or from terminating a session is absorbed, every session the pass
\* discovered is still examined, health_check_complete is emitted at the
\* end of the pass and later passes run.  (In the model every pass ends
\* with health_check_complete, back at idle, from where the next pass
\* starts; what can fail is that a pass ends with sessions it discovered
\* and has not examined, other than one whose record could not be read.)
C12_PassExaminesEverySession ==
    [][(hmPc # "idle" /\ hmPc' = "idle") => Cardinality(hmIds) <= 1]_vars

\* ----------------------------------------------------------------- C13
\* The class performHealthCheck counts a record in: terminated.
countedTerminated(metadata) ==
    metadata # NoRec /\ metadata.status = "terminated"

\* C13: if terminateSession fails for a stale session, the HealthMonitor
\* writes status=terminated to the session's record: once the store has
\* executed that write the record counts as terminated, it keeps counting
\* as terminated, and no later pass handles it as stale again.
C13_StepsOfTheMonitor ==
    \A s \in SessionIds :
       /\ (hmPc = "updating" /\ tsid["monitor"] = s /\ hmPc' = "stamping")
             => countedTerminated(rec'[s])
       /\ countedTerminated(rec[s])
             => /\ countedTerminated(rec'[s])
                /\ ~(hmPc = "scanning" /\ s \in hmIds /\ s \notin hmIds'
                        /\ staleSeen' # staleSeen)

C13_FailedTerminationMarksTerminated == [][C13_StepsOfTheMonitor]_vars

\* A later pass is about to examine the record of a session that still
\* runs and that an earlier pass marked terminated.
C13_Witness ==
    \E s \in SessionIds :
       /\ hmPc = "scanning"
       /\ s \in hmIds
       /\ s \in staleSeen
       /\ countedTerminated(rec[s])
       /\ status[s] = "running"

\* ----------------------------------------------------------------- C14
\* C14: over the whole life of a session (any sequence of spawn, output
\* lines, sendCommand and exit) the output events it emits carry lineNumber
\* values that start at 1 and strictly increase in emission order.
C14_LineNumbersIncrease ==
    /\ oLog # <<>> => oLog[1] = 1
    /\ \A i, j \in 1..Len(oLog) : i < j => oLog[i] < oLog[j]

\* ----------------------------------------------------------------- C15
\* C15: for each process exit exactly one output event of type exit is
\* emitted, after the output events of every line the process wrote before
\* exiting (none of them is dropped), and exactly one 'terminated'
\* notification follows it.
C15_StepsOfTheSession ==
    /\ (oProcess = "alive" /\ oProcess' = "exited")
          => /\ oUnread = 0
             /\ oLog' = emitOutput(oLog, oLineNumber')
             /\ oLastType' = "exit"
             /\ oNotified' = oNotified + 1
    /\ ~(oProcess = "alive" /\ oProcess' = "exited")
          => /\ oNotified' = oNotified
             /\ oLog' # oLog => oLastType' # "exit"

C15_ExitAfterEveryLine == [][C15_StepsOfTheSession]_vars

\* ================================================== SessionHistoryService
notHistVars == <<sessVars, objVars, pubVars, modVars, apiVars, routerVars,
                 provVars,
                 scanVars,
                 cacheVars,
                 retryVars,
                 batchVars>>

Min(a, b) == IF a <= b THEN a ELSE b
Reverse(q) == [i \in 1..Len(q) |-> q[Len(q) + 1 - i]]

\* The pipeline of addEvent: LPUSH, LTRIM 0 maxLines-1, EXPIRE.
addEventPipeline(e) == << <<"LPUSH", e>>, <<"LTRIM", 0>>, <<"EXPIRE", 0>> >>

\* (an addEvents that pushes the array first to last)
addEventsPushesInOrder(events) ==
    [i \in 1..Len(events) |-> <<"LPUSH", events[i]>>]

\* The LPUSH commands of addEvents: for (i = length - 1; i >= 0; i--)
\* lpush(events[i]).
addEventsPushes(events) ==
    [i \in 1..Len(events) |-> <<"LPUSH", events[Len(events) + 1 - i]>>]

\* The pipeline of addEvents: the LPUSHes, LTRIM 0 maxLines-1, EXPIRE.
addEventsPipeline(events) ==
    addEventsPushes(events) \o << <<"LTRIM", 0>>, <<"EXPIRE", 0>> >>

\* Redis: LPUSH puts the value at the head; LTRIM 0 n-1 keeps the first n.
lpush(list, e) == <<e>> \o list
ltrim(list, n) == SubSeq(list, 1, Min(n, Len(list)))

\* getHistory: LRANGE 0 count-1, then reverse.
getHistory(list, count) == Reverse(SubSeq(list, 1, Min(count, Len(list))))

\* addEvent(sessionId, event): the pipeline is sent on the connection the
\* module shares (calls need not wait for one another: the pipelines of
\* concurrent calls queue up in the order of the calls).
AddEvent ==
    /\ hNext <= MaxHistEvents
    /\ hPipe' = hPipe \o addEventPipeline(hNext)
    /\ hNext' = hNext + 1
    /\ UNCHANGED <<notHistVars, history, hReads, hRead>>

\* addEvents(sessionId, events) with n events, numbered in the order of
\* the array: with none it returns; else the pipeline is sent.
AddEvents(n) ==
    /\ hNext + n - 1 <= MaxHistEvents
    /\ LET events == [i \in 1..n |-> hNext + i - 1]
       IN hPipe' = IF n = 0 THEN hPipe ELSE hPipe \o addEventsPipeline(events)
    /\ hNext' = hNext + n
    /\ UNCHANGED <<notHistVars, history, hReads, hRead>>

\* getHistory(sessionId, lineCount) with lineCount from 1 to maxLines (the
\* default): LRANGE is sent.
GetHistory(count) ==
    /\ hReads < MaxReads
    /\ hReads' = hReads + 1
    /\ hPipe' = Append(hPipe, <<"LRANGE", count>>)
    /\ UNCHANGED <<notHistVars, history, hNext, hRead>>

\* Redis executes the oldest command of the connection; the reply of an
\* LRANGE is what getHistory reverses and returns.
HistoryExecute ==
    /\ hPipe # <<>>
    /\ LET cmd == Head(hPipe)
       IN /\ history' = IF cmd[1] = "LPUSH" THEN lpush(history, cmd[2])
                        ELSE IF cmd[1] = "LTRIM" THEN ltrim(history, maxLines)
                        ELSE history
          /\ hRead' = IF cmd[1] = "LRANGE" THEN getHistory(history, cmd[2])
                      ELSE hRead
    /\ hPipe' = Tail(hPipe)
    /\ UNCHANGED <<notHistVars, hNext, hReads>>

NextHistory ==
    \/ AddEvent
    \/ \E n \in 0..MaxBatch : AddEvents(n)
    \/ \E count \in 1..maxLines : GetHistory(count)
    \/ HistoryExecute

SpecHistory == InitAlone /\ [][NextHistory]_vars

\* No addEvent or addEvents call is in progress.
HistoryQuiet == \A i \in 1..Len(hPipe) : hPipe[i][1] = "LRANGE"

\* The events appended so far, numbered in the order of appending.
Appended == 1..(hNext - 1)

\* ----------------------------------------------------------------- C16
\* C16: getHistory returns the stored events oldest first, in the order
\* they were appended, whether they were appended by successive addEvent
\* calls or by an addEvents batch (which leaves the history that addEvent
\* of its events one by one leaves).
C16_HistoryOldestFirst ==
    \A i, j \in 1..Len(hRead) : i < j => hRead[i] < hRead[j]

\* ----------------------------------------------------------------- C17
\* C17: after any sequence of addEvent and addEvents calls, also from
\* concurrent writers, the list is at most maxLines long and the entries
\* kept are the most recently appended ones.
C17_HistoryBoundedKeepsNewest ==
    HistoryQuiet =>
       /\ Len(history) <= maxLines
       /\ Range(history) =
             {e \in Appended : e > Cardinality(Appended) - maxLines}

\* ============================ CliSessionRedisService, command by command

notApiVars == <<sessVars, objVars, pubVars, modVars, histVars, routerVars,
                provVars,
                scanVars,
                cacheVars,
                retryVars,
                batchVars>>

\* createSession's pid is session.getPid() || 0.
Pids == {0, MaxPid}

\* Number.prototype.toString: the decimal digits, most significant first.
RECURSIVE toString(_)
toString(n) ==
    IF n < 10 THEN <<n>> ELSE Append(toString(n \div 10), n % 10)

\* parseInt(string, 10) of a hash field: NaN when the field is missing,
\* else the number its digits spell.
NaN == -1
RECURSIVE parseInt(_)
parseInt(str) ==
    IF str = <<>> THEN NaN
    ELSE IF Len(str) = 1 THEN str[1]
    ELSE 10 * parseInt(SubSeq(str, 1, Len(str) - 1)) + str[Len(str)]

\* CliSessionMetadata as callers build it: terminatedAt goes with the
\* status 'terminated' and is missing otherwise.
Metadata(s, a, w, pid, st) ==
    [sessionId |-> s, agentId |-> a, workspaceId |-> w, pid |-> pid,
     status |-> st, lastHeartbeat |-> "t0",
     terminatedAt |-> IF st = "terminated" THEN "t1" ELSE ""]
Metadatas ==
    {Metadata(s, a, w, pid, st) :
        s \in StoreIds, a \in Agents, w \in Workspaces, pid \in Pids,
        st \in {"running", "terminated"}}

\* HSET key field value [field value ...]: the fields given are written,
\* the others stay as they are.
hset(h, fields) ==
    [f \in DOMAIN NoHash |-> IF fields[f] = NoHash[f] THEN h[f] ELSE fields[f]]

\* The field map storeSession hands to HSET: pid as a string, terminatedAt
\* only when the metadata has one.
storeSessionFields(m) ==
    [sessionId |-> m.sessionId, agentId |-> m.agentId,
     workspaceId |-> m.workspaceId, pid |-> toString(m.pid),
     status |-> m.status, lastHeartbeat |-> m.lastHeartbeat,
     terminatedAt |-> m.terminatedAt]

\* getSession's result for the reply of HGETALL.
getSessionResult(data) ==
    IF data = NoHash THEN Null
    ELSE [sessionId |-> data.sessionId, agentId |-> data.agentId,
          workspaceId |-> data.workspaceId, pid |-> parseInt(data.pid),
          status |-> data.status, lastHeartbeat |-> data.lastHeartbeat,
          terminatedAt |-> data.terminatedAt]

\* A call starts when the one before has returned; a call moves on.
StoreBegin(op, s, pc, m) ==
    /\ storeCall.pc = "returned"
    /\ storeCalls < MaxStoreCalls
    /\ storeCall' = [op |-> op, pc |-> pc, id |-> s, m |-> m]
    /\ storeCalls' = storeCalls + 1
StoreStep(op, from, to) ==
    /\ storeCall.op = op
    /\ storeCall.pc = from
    /\ storeCall' = [storeCall EXCEPT !.pc = to]
    /\ UNCHANGED storeCalls

\* storeSession(metadata): HSET of the field map.
StoreSessionHset(m) ==
    /\ StoreBegin("storeSession", m.sessionId, "expire", m)
    /\ sessionKey' = [sessionKey EXCEPT
                        ![m.sessionId] = hset(@, storeSessionFields(m))]
    /\ stored' = [stored EXCEPT ![m.sessionId] = Null]
    /\ UNCHANGED <<notApiVars, sessionTtl, workspaceKey, agentKey>>

\* storeSession: EXPIRE of the session key.
StoreSessionExpire ==
    /\ StoreStep("storeSession", "expire", "sadd")
    /\ sessionTtl' = [sessionTtl EXCEPT
                        ![storeCall.id] = sessionKey[storeCall.id] # NoHash]
    /\ UNCHANGED <<notApiVars, sessionKey, workspaceKey, agentKey, stored>>

\* storeSession: SADD to the workspace set.
StoreSessionSadd ==
    /\ StoreStep("storeSession", "sadd", "set")
    /\ workspaceKey' = [workspaceKey EXCEPT
                          ![storeCall.m.workspaceId] = @ \cup {storeCall.id}]
    /\ UNCHANGED <<notApiVars, sessionKey, sessionTtl, agentKey, stored>>

\* storeSession: SET of the agent key; the call returns.
StoreSessionSet ==
    /\ StoreStep("storeSession", "set", "returned")
    /\ agentKey' = [agentKey EXCEPT ![storeCall.m.agentId] = storeCall.id]
    /\ stored' = [stored EXCEPT ![storeCall.id] = storeCall.m]
    /\ UNCHANGED <<notApiVars, sessionKey, sessionTtl, workspaceKey>>

\* getSession(sessionId): HGETALL; the call returns the metadata or null.
GetSession(s) ==
    /\ StoreBegin("getSession", s, "returned",
                  getSessionResult(sessionKey[s]))
    /\ UNCHANGED <<notApiVars, sessionKey, sessionTtl, workspaceKey,
                   agentKey, stored>>

\* deleteSession(sessionId): getSession; without metadata the call returns.
DeleteSessionRead(s) ==
    /\ LET metadata == getSessionResult(sessionKey[s])
       IN  StoreBegin("deleteSession", s,
                      IF metadata = Null THEN "returned" ELSE "del",
                      metadata)
    /\ stored' = [stored EXCEPT ![s] = Null]
    /\ UNCHANGED <<notApiVars, sessionKey, sessionTtl, workspaceKey,
                   agentKey>>

\* deleteSession: DEL of the session key.
DeleteSessionDel ==
    /\ StoreStep("deleteSession", "del", "srem")
    /\ sessionKey' = [sessionKey EXCEPT ![storeCall.id] = NoHash]
    /\ sessionTtl' = [sessionTtl EXCEPT ![storeCall.id] = FALSE]
    /\ UNCHANGED <<notApiVars, workspaceKey, agentKey, stored>>

\* deleteSession: SREM from the set of metadata.workspaceId.
DeleteSessionSrem ==
    /\ StoreStep("deleteSession", "srem", "delAgent")
    /\ workspaceKey' =
          IF storeCall.m.workspaceId \in Workspaces
          THEN [workspaceKey EXCEPT
                  ![storeCall.m.workspaceId] = @ \ {storeCall.id}]
          ELSE workspaceKey
    /\ UNCHANGED <<notApiVars, sessionKey, sessionTtl, agentKey, stored>>

\* deleteSession: DEL of the key of metadata.agentId; the call returns.
DeleteSessionDelAgent ==
    /\ StoreStep("deleteSession", "delAgent", "returned")
    /\ agentKey' =
          IF storeCall.m.agentId \in Agents
          THEN [agentKey EXCEPT ![storeCall.m.agentId] = NoSession]
          ELSE agentKey
    /\ UNCHANGED <<notApiVars, sessionKey, sessionTtl, workspaceKey, stored>>

\* updateHeartbeat(sessionId): HSET lastHeartbeat.
UpdateHeartbeatHset(s) ==
    /\ StoreBegin("updateHeartbeat", s, "expire", Null)
    /\ sessionKey' = [sessionKey EXCEPT
                        ![s] = hset(@, [NoHash EXCEPT !.lastHeartbeat = "t2"])]
    /\ stored' = [stored EXCEPT ![s] = Null]
    /\ UNCHANGED <<notApiVars, sessionTtl, workspaceKey, agentKey>>

\* updateHeartbeat: EXPIRE; the call returns.
UpdateHeartbeatExpire ==
    /\ StoreStep("updateHeartbeat", "expire", "returned")
    /\ sessionTtl' = [sessionTtl EXCEPT
                        ![storeCall.id] = sessionKey[storeCall.id] # NoHash]
    /\ UNCHANGED <<notApiVars, sessionKey, workspaceKey, agentKey, stored>>

\* updateStatus(sessionId, status): HSET status; the call returns unless
\* the status is 'terminated'.
UpdateStatusHset(s, st) ==
    /\ StoreBegin("updateStatus", s,
                  IF st = "terminated" THEN "terminatedAt" ELSE "returned",
                  Null)
    /\ sessionKey' = [sessionKey EXCEPT
                        ![s] = hset(@, [NoHash EXCEPT !.status = st])]
    /\ stored' = [stored EXCEPT ![s] = Null]
    /\ UNCHANGED <<notApiVars, sessionTtl, workspaceKey, agentKey>>

\* updateStatus: HSET terminatedAt; the call returns.
UpdateStatusTerminatedAt ==
    /\ StoreStep("updateStatus", "terminatedAt", "returned")
    /\ sessionKey' = [sessionKey EXCEPT
                        ![storeCall.id] =
                            hset(@, [NoHash EXCEPT !.terminatedAt = "t2"])]
    /\ UNCHANGED <<notApiVars, sessionTtl, workspaceKey, agentKey, stored>>

\* The time to live of a session key (sessionTtl, a day by default) runs
\* out: Redis removes the hash.  A call lasts a few round trips, so the
\* key expires between calls.  The workspace sets and the agent keys have
\* no time to live.
SessionKeyExpires(s) ==
    /\ storeCall.pc = "returned"
    /\ sessionTtl[s]
    /\ sessionKey' = [sessionKey EXCEPT ![s] = NoHash]
    /\ sessionTtl' = [sessionTtl EXCEPT ![s] = FALSE]
    /\ stored' = [stored EXCEPT ![s] = Null]
    /\ UNCHANGED <<notApiVars, workspaceKey, agentKey, storeCall, storeCalls>>

NextStore ==
    \/ \E m \in Metadatas : StoreSessionHset(m)
    \/ StoreSessionExpire
    \/ StoreSessionSadd
    \/ StoreSessionSet
    \/ \E s \in StoreIds : GetSession(s)
    \/ \E s \in StoreIds : DeleteSessionRead(s)
    \/ DeleteSessionDel
    \/ DeleteSessionSrem
    \/ DeleteSessionDelAgent
    \/ \E s \in StoreIds : UpdateHeartbeatHset(s)
    \/ UpdateHeartbeatExpire
    \/ \E s \in StoreIds, st \in {"running", "terminated"} :
            UpdateStatusHset(s, st)
    \/ UpdateStatusTerminatedAt
    \/ \E s \in StoreIds : SessionKeyExpires(s)

SpecStore == InitAlone /\ [][NextStore]_vars

\* The call that has just returned.
Returned(op) == storeCall.op = op /\ storeCall.pc = "returned"

\* C18: when deleteSession(id) has returned, the store holds no session
\* record for id, no workspace set contains id and no agent pointer refers
\* to id, whatever the store held before the call.
C18_DeleteSessionRemovesAll ==
    Returned("deleteSession")
        => /\ sessionKey[storeCall.id] = NoHash
           /\ \A w \in Workspaces : storeCall.id \notin workspaceKey[w]
           /\ \A a \in Agents : agentKey[a] # storeCall.id

\* C19: in every state of the store, a session record has terminatedAt
\* exactly when its status is 'terminated'.
C19_TerminatedAtIffTerminated ==
    \A s \in StoreIds :
        sessionKey[s] # NoHash
            => (sessionKey[s].terminatedAt # ""
                    <=> sessionKey[s].status = "terminated")

\* C20: getSession(id) made after storeSession(m) returned, with no write
\* to the record of id in between, returns m field for field, also when
\* the store held a record for id before storeSession(m).
C20_GetReturnsStored ==
    (Returned("getSession") /\ stored[storeCall.id] # Null)
        => storeCall.m = stored[storeCall.id]

\* ================================================= claims on the publisher
\* The publisher with fewer publish() calls in a run.
PublishFew ==
    /\ nextEv <= MaxFewEvents
    /\ Publish

NextPubFew ==
    \/ PublishFew
    \/ BatchTimerFire
    \/ Shutdown
    \/ \E ok \in BOOLEAN : RedisExecute(ok)
    \/ \E e \in Events : PublishTimeout(e)
    \/ \E e \in Events : BackoffDone(e)

SpecPubFew == InitAlone /\ [][NextPubFew]_vars

\* ----------------------------------------------------------------- C26
\* C26: publishWithRetry makes at most retryAttempts attempts for a
\* message; a message whose attempts all failed is dropped (no further
\* attempt, its state stays) and publishFailures goes up by exactly one
\* for it.
C26_StepsOfPublishWithRetry ==
    /\ \A e \in Events :
          /\ attempt'[e] + 1 <= retryAttempts
          /\ (evState[e] # "failed" /\ evState'[e] = "failed")
                => attempt[e] + 1 = retryAttempts
          /\ evState[e] = "failed"
                => /\ evState'[e] = "failed"
                   /\ attempt'[e] = attempt[e]
                   /\ \A i \in 1..Len(redisQ') :
                         redisQ'[i][1] = e
                            => \E j \in 1..Len(redisQ) : redisQ[j] = redisQ'[i]
    /\ publishFailures' = publishFailures
          + Cardinality({e \in Events :
                            evState[e] # "failed" /\ evState'[e] = "failed"})

C26_AtMostRetryAttemptsThenCounted == [][C26_StepsOfPublishWithRetry]_vars

\* A message was dropped after its last attempt and counted once.
C26_Witness ==
    \E e \in Events :
       /\ evState[e] = "failed"
       /\ attempt[e] + 1 = retryAttempts
       /\ publishFailures = 1

\* ----------------------------------------------------------------- C27
\* C27: at most one flush is in flight: every event being published
\* belongs to the one batch in progress, a flush() called meanwhile
\* leaves that batch alone and waits, a new batch starts only when every
\* event of the batch before is settled, and on completion a follow-up (a
\* timer armed, or the flush of a waiting flush() call) happens only with
\* events that came in during the flush.
C27_StepsOfFlush ==
    /\ \A e \in Events :
          evState'[e] \in {"sending", "backoff"}
             => isFlushInProgress' /\ e \in Range(batch')
    /\ (isFlushInProgress /\ batch' # batch)
          => /\ \A i \in 1..Len(batch) : evState'[batch[i]] \in {"ok", "failed"}
             /\ isFlushInProgress' => (pendingEvents # <<>> /\ batch' = pendingEvents)
    /\ (isFlushInProgress /\ nextEv' = nextEv /\ ~batchTimer /\ batchTimer')
          => (pendingEvents # <<>> /\ ~isFlushInProgress')
    /\ (isFlushInProgress /\ Len(waiters') > Len(waiters))
          => (batch' = batch /\ isFlushInProgress')

C27_SingleFlightFlush == [][C27_StepsOfFlush]_vars

\* A flush() call waits for the flush in flight while events have come in.
C27_Witness ==
    /\ isFlushInProgress
    /\ waiters # <<>>
    /\ pendingEvents # <<>>

\* =========================================== claims on the SessionManager
\* ----------------------------------------------------------------- C28
\* C28: a termination call (terminateSession, terminateAllSessions) that
\* waits for the exit of a session's process goes on once the process has
\* exited, also when another termination call for the same session was
\* made while it waited: no call waits for a process that has exited.
C28_NoCallWaitsAfterExit ==
    /\ \A c \in TermCallers :
          tpc[c] = "exitWait" => status[tsid[c]] = "running"
    /\ allPc = "waiting" => \A s \in allWait : status[s] = "running"

\* ----------------------------------------------------------------- C29
\* createSession calls, process exits at any moment after spawn,
\* terminateAllSessions and the HealthMonitor, on an empty store, with the
\* fairness of SpecFair.
CreateSessionCallExit(a, w) ==
    /\ nextId <= MaxExitCalls
    /\ a \in CallerAgents
    /\ CreateSessionCount(a, w)

NextExit ==
    \/ \E a \in Agents, w \in Workspaces : CreateSessionCallExit(a, w)
    \/ \E s \in SessionIds : CreateSessionSpawn(s)
    \/ \E s \in SessionIds : StoreSessionDone(s)
    \/ \E s \in SessionIds : HandleExit(s)
    \/ \E s \in SessionIds : KillTimerFire(s)
    \/ \E s \in SessionIds : Heartbeat(s)
    \/ \E s \in AllIds : BecomeStale(s)
    \/ \E s \in SessionIds : BgDeleteDone(s)
    \/ \E c \in TermCallers : TerminateSessionReturn(c)
    \/ TerminateAllSessions
    \/ HealthCheckStart
    \/ \E s \in AllIds : HealthCheckExamine(s)
    \/ HealthCheckComplete

SpecExitFair ==
    /\ InitAlone
    /\ [][NextExit]_vars
    /\ WF_vars(HealthCheckStart)
    /\ WF_vars(\E s \in AllIds : HealthCheckExamine(s))
    /\ WF_vars(HealthCheckComplete)
    /\ WF_vars(\E s \in SessionIds : BgDeleteDone(s))
    /\ WF_vars(\E c \in TermCallers : TerminateSessionReturn(c))
    /\ WF_vars(\E s \in SessionIds : KillTimerFire(s))
    /\ WF_vars(\E s \in SessionIds : signal[s] = "SIGKILL" /\ HandleExit(s))
    /\ WF_vars(\E s \in AllIds : BecomeStale(s))

\* C29: a session whose process has exited by itself, at any moment after
\* spawn (also while createSession still awaits storeSession, before the
\* 'terminated' handler is attached), is eventually gone from the
\* in-memory maps and from the store, and stays gone.
C29_ExitedEventuallyRemoved ==
    \A s \in SessionIds :
       <>[](status[s] = "terminated" => (Untracked(s) /\ Unstored(s)))

\* ----------------------------------------------------------------- C30
\* C30: the cleanup or deletion of one session removes the agent pointer
\* cli:agent:{agentId} and the in-memory agent mapping only of that
\* session: a step that removes a pointer (a mapping) referring to session
\* s also removes the record of s (removes s from the sessions map).
C30_StepsOfCleanup ==
    \A a \in Agents, s \in SessionIds :
       /\ (agentPtr[a] = s /\ agentPtr'[a] = NoSession)
             => (rec[s] # NoRec /\ rec'[s] = NoRec)
       /\ (agentToSession[a] = s /\ agentToSession'[a] = NoSession)
             => (s \in sessions /\ s \notin sessions')

C30_AgentPointerOfOtherSessionKept == [][C30_StepsOfCleanup]_vars

\* ------------------------------------------------------ TaskModelRouter
\* routeTask is computed stage by stage as the code computes it. The
\* catalog, the reachability of the model registry and the providers the
\* ProviderRegistry enables are the surroundings of a run; they do not
\* change between the routeTask calls of that run.
notRouterVars == <<sessVars, objVars, pubVars, modVars, histVars, apiVars,
                   provVars,
                   scanVars,
                   cacheVars,
                   retryVars,
                   batchVars>>

Providers == {"anthropic", "openai"}
TaskTypes == {"coding", "embedding"}

\* Prices per million tokens and context windows (in thousands of tokens)
\* of the catalog's models.
Model(id, p, av, tools, vision, streaming, emb, ctx, inP, outP, tier, tasks) ==
    [modelId |-> id, provider |-> p, available |-> av,
     supportsTools |-> tools, supportsVision |-> vision,
     supportsStreaming |-> streaming, supportsEmbedding |-> emb,
     contextWindow |-> ctx, inputPricePer1M |-> inP,
     outputPricePer1M |-> outP, qualityTier |-> tier, suitableFor |-> tasks]

\* The null getByModelId returns for an unknown id.
NoModel == Model("", "", FALSE, FALSE, FALSE, FALSE, FALSE, 0, 0, 0, "", <<>>)

SmallWindow == 8
MidWindow == 128
BigWindow == 200

\* A catalog in which every model of the default rules that it holds is
\* usable, and a second one with an unavailable default model, two
\* equally priced models and an entry tagged for embedding only whose
\* supportsEmbedding flag is false.
FullCatalog ==
    << Model("claude-opus-4-20250514", "anthropic", TRUE, TRUE, TRUE, FALSE,
             FALSE, BigWindow, 15, 75, "premium", <<"coding">>),
       Model("claude-sonnet-4-20250514", "anthropic", TRUE, TRUE, TRUE, TRUE,
             FALSE, BigWindow, 3, 15, "standard", <<"coding">>),
       Model("gpt-4o", "openai", TRUE, TRUE, TRUE, TRUE,
             FALSE, MidWindow, 2, 10, "standard", <<"coding">>),
       Model("gpt-4o-mini", "openai", TRUE, TRUE, FALSE, TRUE,
             FALSE, MidWindow, 1, 2, "economy", <<"coding">>),
       Model("text-embedding-3-small", "openai", TRUE, FALSE, FALSE, FALSE,
             TRUE, SmallWindow, 1, 0, "economy", <<"embedding">>) >>

PoorCatalog ==
    << Model("claude-sonnet-4-20250514", "anthropic", FALSE, TRUE, TRUE, TRUE,
             FALSE, BigWindow, 3, 15, "standard", <<"coding">>),
       Model("gpt-4o", "openai", TRUE, FALSE, TRUE, TRUE,
             FALSE, MidWindow, 2, 10, "standard", <<"coding">>),
       Model("gpt-4o-mini", "openai", TRUE, TRUE, FALSE, TRUE,
             FALSE, SmallWindow, 2, 2, "economy", <<"coding">>),
       Model("text-embedding-3-large", "openai", TRUE, TRUE, TRUE, TRUE,
             FALSE, MidWindow, 1, 0, "economy", <<"embedding">>),
       Model("text-embedding-3-small", "openai", FALSE, FALSE, FALSE, FALSE,
             TRUE, SmallWindow, 1, 0, "economy", <<"embedding">>) >>

Catalogs == {FullCatalog, PoorCatalog}

DEFAULT_ESTIMATED_INPUT_TOKENS == 1000
DEFAULT_ESTIMATED_OUTPUT_TOKENS == 500

\* DEFAULT_ROUTING_RULES for the task types of the requests.
RoutingRule(d, f) == [defaultModel |-> d, fallbackModels |-> f]
DEFAULT_ROUTING_RULES ==
    [t \in TaskTypes |->
        IF t = "coding"
        THEN RoutingRule("claude-sonnet-4-20250514",
                         <<"gpt-4o", "deepseek-chat", "gemini-2.0-pro">>)
        ELSE RoutingRule("text-embedding-3-small",
                         <<"text-embedding-004", "text-embedding-3-large">>)]

\* ModelRegistryClient.getByModelId and getSuitableForTask when the
\* registry answers.
getByModelId(modelId) ==
    LET found == SelectSeq(catalog, LAMBDA m : m.modelId = modelId)
    IN  IF found = <<>> THEN NoModel ELSE found[1]

isSuitableFor(m, taskType) ==
    \E i \in 1..Len(m.suitableFor) : m.suitableFor[i] = taskType

getSuitableForTask(taskType) ==
    SelectSeq(catalog, LAMBDA m : isSuitableFor(m, taskType))

\* estimateCost in millionths of a dollar; -1 when the pricing lookup fails.
PricingUnavailable == -1
estimateCost(modelId, inputTokens, outputTokens) ==
    IF registryDown \/ getByModelId(modelId) = NoModel
    THEN PricingUnavailable
    ELSE inputTokens * getByModelId(modelId).inputPricePer1M
         + outputTokens * getByModelId(modelId).outputPricePer1M

calculateCostForRequest(modelId) ==
    estimateCost(modelId, DEFAULT_ESTIMATED_INPUT_TOKENS,
                 DEFAULT_ESTIMATED_OUTPUT_TOKENS)

Valid == [valid |-> TRUE, reason |-> ""]
Invalid(why) == [valid |-> FALSE, reason |-> why]

\* The embedding-only check of validateCapabilities.
isEmbeddingOnly(model) ==
    /\ model.supportsEmbedding
    /\ Len(model.suitableFor) = 1
    /\ model.suitableFor[1] = "embedding"

validateCapabilities(model, request) ==
    IF request.requiresTools /\ ~model.supportsTools
    THEN Invalid("does not support tools")
    ELSE IF request.requiresVision /\ ~model.supportsVision
    THEN Invalid("does not support vision")
    ELSE IF request.requiresStreaming /\ ~model.supportsStreaming
    THEN Invalid("does not support streaming")
    ELSE IF request.contextSizeTokens # 0
            /\ model.contextWindow < request.contextSizeTokens
    THEN Invalid("context window insufficient")
    ELSE IF request.taskType # "embedding" /\ isEmbeddingOnly(model)
    THEN Invalid("is an embedding-only model")
    ELSE IF request.taskType = "embedding" /\ ~model.supportsEmbedding
    THEN Invalid("does not support embedding")
    ELSE Valid

validateModelForRequest(modelId, request, config) ==
    LET model == getByModelId(modelId)
    IN  IF registryDown THEN Invalid("failed to fetch from registry")
        ELSE IF model = NoModel THEN Invalid("not found in registry")
        ELSE IF ~model.available THEN Invalid("is not available")
        ELSE IF model.provider \notin config.enabledProviders
        THEN Invalid("no BYOK key")
        ELSE IF model.provider \notin registryEnabled
        THEN Invalid("disabled in provider registry")
        ELSE validateCapabilities(model, request)

RoutingAlternative(modelId, provider, cost, why) ==
    [model |-> modelId, provider |-> provider, estimatedCost |-> cost,
     reason |-> why]

\* The two arrays routeTask hands to every stage.
Arrays(alternatives, attemptedModels) ==
    [alternatives |-> alternatives, attemptedModels |-> attemptedModels]

\* What a stage hands back: a decision, or null with the arrays as the
\* stage left them.
StageDecision(modelId, provider, why, arrays) ==
    [found |-> TRUE, selectedModel |-> modelId, provider |-> provider,
     reason |-> why, estimatedCost |-> calculateCostForRequest(modelId),
     alternatives |-> arrays.alternatives,
     attemptedModels |-> arrays.attemptedModels]
StageNull(arrays) ==
    [found |-> FALSE, selectedModel |-> "", provider |-> "", reason |-> "",
     estimatedCost |-> 0, alternatives |-> arrays.alternatives,
     attemptedModels |-> arrays.attemptedModels]

RoutingDecision(d) ==
    [kind |-> "decision", selectedModel |-> d.selectedModel,
     provider |-> d.provider, reason |-> d.reason,
     estimatedCost |-> d.estimatedCost, alternatives |-> d.alternatives,
     attemptedModels |-> d.attemptedModels]
RoutingError(why, arrays, attemptedModels) ==
    [kind |-> "RoutingError", selectedModel |-> "", provider |-> "",
     reason |-> why, estimatedCost |-> 0,
     alternatives |-> arrays.alternatives,
     attemptedModels |-> attemptedModels]
\* The registry client's own error, which handleForceModel lets through.
RegistryError(arrays) ==
    [kind |-> "Error", selectedModel |-> "", provider |-> "",
     reason |-> "Model Registry API request failed", estimatedCost |-> 0,
     alternatives |-> arrays.alternatives,
     attemptedModels |-> arrays.attemptedModels]

tryModel(modelId, request, config, arrays) ==
    LET attempted == Append(arrays.attemptedModels, modelId)
        model == getByModelId(modelId)
        validation == validateModelForRequest(modelId, request, config)
    IN  IF registryDown
        THEN StageNull(Arrays(
                Append(arrays.alternatives,
                       RoutingAlternative(modelId, "unknown", 0,
                                          "registry error")),
                attempted))
        ELSE IF validation.valid
        THEN StageDecision(modelId, model.provider, "Default routing",
                           Arrays(arrays.alternatives, attempted))
        ELSE StageNull(Arrays(
                Append(arrays.alternatives,
                       RoutingAlternative(
                           modelId,
                           IF model = NoModel THEN "unknown"
                           ELSE model.provider,
                           calculateCostForRequest(modelId),
                           validation.reason)),
                attempted))

\* tryModel on the ids from the i-th on, until one is selected.
RECURSIVE tryModelsFrom(_, _, _, _, _)
tryModelsFrom(ids, i, request, config, arrays) ==
    IF i > Len(ids) THEN StageNull(arrays)
    ELSE LET result == tryModel(ids[i], request, config, arrays)
         IN  IF result.found THEN result
             ELSE tryModelsFrom(ids, i + 1, request, config,
                                Arrays(result.alternatives,
                                       result.attemptedModels))

NoOverride == [preferredModel |-> "", fallbackModel |-> ""]

tryWorkspaceOverrides(request, config, arrays) ==
    IF request.taskType \notin DOMAIN config.taskOverrides
    THEN StageNull(arrays)
    ELSE LET overrides == config.taskOverrides[request.taskType]
         IN  tryModelsFrom(
                 (IF overrides.preferredModel # ""
                  THEN <<overrides.preferredModel>> ELSE <<>>)
                 \o (IF overrides.fallbackModel # ""
                     THEN <<overrides.fallbackModel>> ELSE <<>>),
                 1, request, config, arrays)

tryDefaultRouting(request, config, arrays) ==
    LET rule == DEFAULT_ROUTING_RULES[request.taskType]
    IN  tryModelsFrom(<<rule.defaultModel>> \o rule.fallbackModels, 1,
                      request, config, arrays)

\* Array.prototype.sort is stable: a model goes behind every model whose
\* key is not greater than its own.
insertByKey(sorted, m, key) ==
    LET n == Cardinality({i \in 1..Len(sorted) : key[sorted[i]] <= key[m]})
    IN  SubSeq(sorted, 1, n) \o <<m>> \o SubSeq(sorted, n + 1, Len(sorted))

RECURSIVE sortFirst(_, _, _)
sortFirst(models, n, key) ==
    IF n = 0 THEN <<>>
    ELSE insertByKey(sortFirst(models, n - 1, key), models[n], key)

elements(seq) == {seq[i] : i \in 1..Len(seq)}

byInputPrice(models) ==
    sortFirst(models, Len(models),
              [m \in elements(models) |-> m.inputPricePer1M])

tierOrder(tier) ==
    IF tier = "premium" THEN 3
    ELSE IF tier = "standard" THEN 2
    ELSE IF tier = "economy" THEN 1
    ELSE 0

byQualityTier(models) ==
    sortFirst(models, Len(models),
              [m \in elements(models) |-> 0 - tierOrder(m.qualityTier)])

\* The other candidates, recorded when one candidate is selected.
notSelected(candidates, modelId, why) ==
    LET others == SelectSeq(candidates, LAMBDA m : m.modelId # modelId)
    IN  [i \in 1..Len(others) |->
            RoutingAlternative(others[i].modelId, others[i].provider,
                               calculateCostForRequest(others[i].modelId),
                               why)]

\* The loop over the sorted candidates that handleForceProvider,
\* handlePresetRouting and tryRegistryFallback share.
RECURSIVE tryCandidatesFrom(_, _, _, _, _, _)
tryCandidatesFrom(candidates, i, request, arrays, why, whyNot) ==
    IF i > Len(candidates) THEN StageNull(arrays)
    ELSE LET model == candidates[i]
             attempted == Append(arrays.attemptedModels, model.modelId)
             validation == validateCapabilities(model, request)
         IN  IF validation.valid
             THEN StageDecision(
                      model.modelId, model.provider, why,
                      Arrays(arrays.alternatives
                             \o notSelected(candidates, model.modelId, whyNot),
                             attempted))
             ELSE tryCandidatesFrom(
                      candidates, i + 1, request,
                      Arrays(Append(arrays.alternatives,
                                    RoutingAlternative(
                                        model.modelId, model.provider,
                                        calculateCostForRequest(model.modelId),
                                        validation.reason)),
                             attempted),
                      why, whyNot)

handleForceModel(request, config, arrays) ==
    LET modelId == request.forceModel
        model == getByModelId(modelId)
        attempted == Arrays(arrays.alternatives,
                            Append(arrays.attemptedModels, modelId))
        capabilityCheck == validateCapabilities(model, request)
    IN  IF registryDown THEN RegistryError(attempted)
        ELSE IF model = NoModel
        THEN RoutingError("Forced model not found in model registry",
                          attempted, attempted.attemptedModels)
        ELSE IF model.provider \notin config.enabledProviders
        THEN RoutingError("Forced model provider not enabled",
                          attempted, attempted.attemptedModels)
        ELSE RoutingDecision(StageDecision(
                 modelId, model.provider,
                 IF capabilityCheck.valid THEN "Forced model selection"
                 ELSE "Forced model selection (WARNING)",
                 attempted))

forcedProviderModels(request) ==
    byInputPrice(SelectSeq(
        IF registryDown THEN <<>> ELSE getSuitableForTask(request.taskType),
        LAMBDA m : m.provider = request.forceProvider /\ m.available))

handleForceProvider(request, config, arrays) ==
    LET result == tryCandidatesFrom(
                      forcedProviderModels(request), 1, request, arrays,
                      "Best available model from forced provider",
                      "Not selected (alternative from forced provider)")
    IN  IF request.forceProvider \notin config.enabledProviders
        THEN RoutingError("Forced provider not enabled", arrays,
                          arrays.attemptedModels)
        ELSE IF result.found THEN RoutingDecision(result)
        ELSE RoutingError("No suitable model found from forced provider",
                          result, result.attemptedModels)

\* The filter of handlePresetRouting and of tryRegistryFallback.
isUsable(m, config) ==
    /\ m.available
    /\ m.provider \in config.enabledProviders
    /\ m.provider \in registryEnabled

handlePresetRouting(request, config, arrays) ==
    LET availableModels ==
            SelectSeq(getSuitableForTask(request.taskType),
                      LAMBDA m : isUsable(m, config))
        sortedModels ==
            IF config.preset = "economy" THEN byInputPrice(availableModels)
            ELSE byQualityTier(availableModels)
    IN  IF registryDown THEN StageNull(arrays)
        ELSE tryCandidatesFrom(sortedModels, 1, request, arrays,
                               "Selected by preset", "Not selected (preset)")

isAttempted(modelId, attemptedModels) ==
    \E i \in 1..Len(attemptedModels) : attemptedModels[i] = modelId

tryRegistryFallbackNever(request, config, arrays) == StageNull(arrays)
tryRegistryFallback(request, config, arrays) ==
    LET candidateModels ==
            byInputPrice(SelectSeq(
                getSuitableForTask(request.taskType),
                LAMBDA m : /\ isUsable(m, config)
                           /\ ~isAttempted(m.modelId, arrays.attemptedModels)))
    IN  IF registryDown THEN StageNull(arrays)
        ELSE tryCandidatesFrom(
                 candidateModels, 1, request, arrays,
                 "Registry fallback: cheapest available model",
                 "Not selected (registry fallback alternative)")

\* routeTask starts every call with empty arrays of its own.
keptAttemptedModels(previous) == previous
freshAttemptedModels(previous) == <<>>

\* Only the economy and quality presets have a stage of their own.
presetAlwaysApplies(preset) == TRUE
presetApplies(preset) == preset = "economy" \/ preset = "quality"

\* Stages 3 to 6 of routeTask, each on the arrays the stage before left.
routeByStages(request, config, arrays) ==
    LET overrideResult == tryWorkspaceOverrides(request, config, arrays)
        afterOverrides == Arrays(overrideResult.alternatives,
                                 overrideResult.attemptedModels)
        presetResult ==
            IF presetApplies(config.preset)
            THEN handlePresetRouting(request, config, afterOverrides)
            ELSE StageNull(afterOverrides)
        afterPreset == Arrays(presetResult.alternatives,
                              presetResult.attemptedModels)
        defaultResult == tryDefaultRouting(request, config, afterPreset)
        afterDefault == Arrays(defaultResult.alternatives,
                               defaultResult.attemptedModels)
        registryResult == tryRegistryFallback(request, config, afterDefault)
    IN  IF overrideResult.found THEN RoutingDecision(overrideResult)
        ELSE IF presetResult.found THEN RoutingDecision(presetResult)
        ELSE IF defaultResult.found THEN RoutingDecision(defaultResult)
        ELSE IF registryResult.found THEN RoutingDecision(registryResult)
        ELSE RoutingError("No suitable model found", registryResult,
                          registryResult.attemptedModels)

routeTask(request, config, previous) ==
    LET arrays == Arrays(<<>>, freshAttemptedModels(previous))
    IN  IF config.enabledProviders = {}
        THEN RoutingError("No enabled providers in workspace", arrays, <<>>)
        ELSE IF request.forceModel # ""
        THEN handleForceModel(request, config, arrays)
        ELSE IF request.forceProvider # ""
        THEN handleForceProvider(request, config, arrays)
        ELSE routeByStages(request, config, arrays)

\* ---- the requests, configurations and surroundings of the router runs
MaxRouteCalls == 2

Requirements == BOOLEAN \X BOOLEAN \X BOOLEAN
ContextSizes == {0, BigWindow}
\* forceModel and forceProvider of a request; "" is undefined.
Forced == {<<"", "">>, <<"gpt-4o", "">>, <<"claude-opus-4-20250514", "">>,
           <<"no-such-model", "">>, <<"", "anthropic">>, <<"", "openai">>,
           <<"no-such-model", "openai">>}

Requests ==
    {[taskType |-> t, requiresTools |-> r[1], requiresVision |-> r[2],
      requiresStreaming |-> r[3], contextSizeTokens |-> c,
      forceModel |-> f[1], forceProvider |-> f[2]] :
        t \in TaskTypes, r \in Requirements, c \in ContextSizes, f \in Forced}

Presets == {"auto", "economy", "quality", "balanced"}
\* taskOverrides: none, or an entry for coding tasks.
TaskOverrides ==
    {[t \in {} |-> NoOverride],
     [t \in {"coding"} |-> [preferredModel |-> "gpt-4o-mini",
                            fallbackModel |-> "gpt-4o"]],
     [t \in {"coding"} |-> [preferredModel |-> "text-embedding-3-large",
                            fallbackModel |-> ""]]}

Configs ==
    {[enabledProviders |-> e, preset |-> p, taskOverrides |-> o] :
        e \in SUBSET Providers, p \in Presets, o \in TaskOverrides}

InitRouter ==
    /\ catalog \in Catalogs
    /\ registryDown \in BOOLEAN
    /\ registryEnabled \in {{"openai"}, {"anthropic"}, Providers}
    /\ rtRequest \in Requests
    /\ rtConfig \in Configs
    /\ rtCalls = 0
    /\ rtFirst = NoOutcome
    /\ rtLast = NoOutcome

InitRouterAlone ==
    InitSessWith(FALSE) /\ InitObj /\ InitPub /\ InitInner /\ InitRouter

\* One routeTask call with the run's request and configuration.
RouteTask ==
    /\ rtCalls < MaxRouteCalls
    /\ rtCalls' = rtCalls + 1
    /\ rtLast' = routeTask(rtRequest, rtConfig, rtLast.attemptedModels)
    /\ rtFirst' = IF rtCalls = 0
                  THEN routeTask(rtRequest, rtConfig, rtLast.attemptedModels)
                  ELSE rtFirst
    /\ UNCHANGED <<notRouterVars, catalog, registryDown, registryEnabled,
                   rtRequest, rtConfig>>

NextRouter == RouteTask

SpecRouter == InitRouterAlone /\ [][NextRouter]_vars

\* ------------------------------------------------- claims on the router
\* The candidates of a routeTask call, each with the verdict of the check
\* its stage applies to it, in the order the stages would take them.
Candidate(modelId, ok, why) ==
    [modelId |-> modelId, valid |-> ok, reason |-> why]

checkedById(ids, request, config) ==
    [i \in 1..Len(ids) |->
        IF registryDown THEN Candidate(ids[i], FALSE, "registry error")
        ELSE Candidate(ids[i],
                       validateModelForRequest(ids[i], request, config).valid,
                       validateModelForRequest(ids[i], request, config).reason)]

checkedByCapability(models, request) ==
    [i \in 1..Len(models) |->
        Candidate(models[i].modelId,
                  validateCapabilities(models[i], request).valid,
                  validateCapabilities(models[i], request).reason)]

usableModels(request, config) ==
    IF registryDown THEN <<>>
    ELSE SelectSeq(catalog,
                   LAMBDA m : /\ isSuitableFor(m, request.taskType)
                              /\ isUsable(m, config))

forcedModelPart(request, config) ==
    IF request.forceModel = "" THEN <<>>
    ELSE << Candidate(request.forceModel,
                      /\ ~registryDown
                      /\ getByModelId(request.forceModel) # NoModel
                      /\ getByModelId(request.forceModel).provider
                            \in config.enabledProviders,
                      "") >>

forcedProviderPart(request, config) ==
    IF request.forceProvider \notin config.enabledProviders THEN <<>>
    ELSE checkedByCapability(forcedProviderModels(request), request)

overridesPart(request, config) ==
    IF request.taskType \notin DOMAIN config.taskOverrides THEN <<>>
    ELSE checkedById(
             SelectSeq(<<config.taskOverrides[request.taskType].preferredModel,
                         config.taskOverrides[request.taskType].fallbackModel>>,
                       LAMBDA id : id # ""),
             request, config)

presetPart(request, config) ==
    IF config.preset = "economy"
    THEN checkedByCapability(byInputPrice(usableModels(request, config)),
                             request)
    ELSE IF config.preset = "quality"
    THEN checkedByCapability(byQualityTier(usableModels(request, config)),
                             request)
    ELSE <<>>

defaultRulesPart(request, config) ==
    checkedById(<<DEFAULT_ROUTING_RULES[request.taskType].defaultModel>>
                \o DEFAULT_ROUTING_RULES[request.taskType].fallbackModels,
                request, config)

registryPart(request, config) ==
    checkedByCapability(byInputPrice(usableModels(request, config)), request)

laterStagesInOrder(request, config) ==
    overridesPart(request, config) \o presetPart(request, config)
    \o defaultRulesPart(request, config) \o registryPart(request, config)

\* Every stage, whatever the stages before it did.
allStagesInOrder(request, config) ==
    forcedModelPart(request, config) \o forcedProviderPart(request, config)
    \o laterStagesInOrder(request, config)

\* A forced model or provider is the only stage of its call.
stagesOfCall(request, config) ==
    IF request.forceModel # "" THEN forcedModelPart(request, config)
    ELSE IF request.forceProvider # "" THEN forcedProviderPart(request, config)
    ELSE laterStagesInOrder(request, config)

firstValid(candidates) ==
    IF \A i \in 1..Len(candidates) : ~candidates[i].valid THEN 0
    ELSE CHOOSE i \in 1..Len(candidates) :
            /\ candidates[i].valid
            /\ \A j \in 1..(i - 1) : ~candidates[j].valid

isRecorded(candidate, alternatives) ==
    \E i \in 1..Len(alternatives) :
        /\ alternatives[i].model = candidate.modelId
        /\ alternatives[i].reason = candidate.reason

\* The outcome is the one the first valid candidate of the list calls for.
followsStages(outcome, candidates) ==
    LET k == firstValid(candidates)
    IN  IF k = 0 THEN outcome.kind # "decision"
        ELSE /\ outcome.kind = "decision"
             /\ outcome.selectedModel = candidates[k].modelId
             /\ \A j \in 1..(k - 1) :
                    isRecorded(candidates[j], outcome.alternatives)

Routed == rtCalls > 0 /\ rtConfig.enabledProviders # {}

\* C21, as the specification words it: routeTask raises RoutingError only
\* when no stage at all has a valid candidate, also when the request
\* forces a model or a provider.
C21_ErrorOnlyWhenEveryStageFailed ==
    (Routed /\ rtLast.kind = "RoutingError")
        => firstValid(allStagesInOrder(rtRequest, rtConfig)) = 0

\* C21: routeTask raises RoutingError only when the provider list is empty
\* or no candidate of the stages of the call is valid - the forced model
\* alone when forceModel is set, the forced provider's models alone when
\* forceProvider is set, the candidates of overrides, preset, default rules
\* and registry fallback otherwise - and the error carries the ids of all
\* those candidates and of no other model.
C21_ErrorOnlyWhenStagesOfCallFailed ==
    (rtCalls > 0 /\ rtLast.kind = "RoutingError")
        => \/ rtConfig.enabledProviders = {} /\ rtLast.attemptedModels = <<>>
           \/ /\ rtConfig.enabledProviders # {}
              /\ firstValid(stagesOfCall(rtRequest, rtConfig)) = 0
              /\ elements(rtLast.attemptedModels)
                   = {stagesOfCall(rtRequest, rtConfig)[i].modelId :
                        i \in 1..Len(stagesOfCall(rtRequest, rtConfig))}

C21_Witness ==
    /\ Routed
    /\ rtLast.kind = "RoutingError"
    /\ rtRequest.forceModel = ""
    /\ rtRequest.forceProvider = ""
    /\ ~registryDown
    /\ Len(rtLast.attemptedModels) > Len(DEFAULT_ROUTING_RULES["coding"].fallbackModels) + 1

\* C22, as the specification words it: the six stages are tried in order
\* whatever the request forces, the first valid candidate is selected and
\* every candidate before it is in alternatives with its reason.
C22_FirstValidOfAllStages ==
    Routed => followsStages(rtLast, allStagesInOrder(rtRequest, rtConfig))

\* C22: a forced model or a forced provider is the only stage of its call;
\* otherwise overrides, preset (economy and quality only), default rules and
\* registry fallback are tried in this order. The first valid candidate in
\* that order is selected, and every candidate before it is recorded in
\* alternatives with its rejection reason.
C22_FirstValidOfStagesOfCall ==
    Routed => followsStages(rtLast, stagesOfCall(rtRequest, rtConfig))

C22_Witness ==
    /\ Routed
    /\ rtLast.kind = "decision"
    /\ rtRequest.forceModel = ""
    /\ rtRequest.forceProvider = ""
    /\ rtConfig.preset = "auto"
    /\ rtLast.reason = "Registry fallback: cheapest available model"
    /\ Len(rtLast.alternatives) > 1

\* The capability rules of the specification for a selected model.
meetsCapabilityRules(model, request) ==
    /\ request.requiresTools => model.supportsTools
    /\ request.requiresVision => model.supportsVision
    /\ request.requiresStreaming => model.supportsStreaming
    /\ request.contextSizeTokens # 0
          => model.contextWindow >= request.contextSizeTokens
    /\ request.taskType # "embedding" => model.suitableFor # <<"embedding">>
    /\ request.taskType = "embedding" => model.supportsEmbedding

\* C23: a model selected by any stage but forceModel satisfies the
\* capability rules for the request.
C23_SelectedModelMeetsCapabilityRules ==
    (rtLast.kind = "decision" /\ rtRequest.forceModel = "")
        => meetsCapabilityRules(getByModelId(rtLast.selectedModel), rtRequest)

notProvVars == <<sessVars, objVars, pubVars, modVars, histVars, apiVars,
                 routerVars,
                 scanVars,
                 cacheVars,
                 retryVars,
                 batchVars>>

\* ProviderConfig.maxRetries as configured for the run, and the
\* operations of one run.
maxRetries == 2
MaxProviderOps == 2

\* What a vendor call fails with: the HTTP status of the SDK's error, or
\* no status and a message.
VendorErrors ==
    {[status |-> 401, message |-> ""], [status |-> 429, message |-> ""],
     [status |-> 400, message |-> ""], [status |-> 404, message |-> ""],
     [status |-> 529, message |-> ""], [status |-> 500, message |-> ""],
     [status |-> 0, message |-> "ECONNREFUSED"],
     [status |-> 0, message |-> "socket hang up"]}

ProviderError(type, retryable) == [type |-> type, retryable |-> retryable]

mapError(error) ==
    IF error.status = 401 THEN ProviderError("authentication_error", FALSE)
    ELSE IF error.status = 429 THEN ProviderError("rate_limit_error", TRUE)
    ELSE IF error.status = 400 THEN ProviderError("invalid_request_error", FALSE)
    ELSE IF error.status = 404 THEN ProviderError("model_not_found_error", FALSE)
    ELSE IF error.status = 529 THEN ProviderError("server_error", TRUE)
    ELSE IF error.status # 0 /\ error.status >= 500
    THEN ProviderError("server_error", TRUE)
    ELSE IF error.message = "ECONNREFUSED"
    THEN ProviderError("network_error", TRUE)
    ELSE ProviderError("unknown_error", FALSE)

\* The error withTimeout rejects with when its timer fires first.
TimeoutError == ProviderError("timeout_error", TRUE)

\* withRetry's catch block lets the error through at once.
withRetryRethrowsLate(providerError, n) ==
    ~providerError.retryable \/ n = maxRetries + 1
withRetryRethrows(providerError, n) ==
    ~providerError.retryable \/ n = maxRetries

\* A new operation begins: its first vendor call, or no call at all when
\* validateRequest throws.
ProviderBegin(op, pc, calls, thrown) ==
    /\ pvPc \in {"idle", "returned", "threw"}
    /\ pvOps < MaxProviderOps
    /\ pvOps' = pvOps + 1
    /\ pvOp' = op
    /\ pvPc' = pc
    /\ pvAttempt' = 0
    /\ pvCalls' = calls
    /\ pvErrors' = <<>>
    /\ pvThrown' = thrown
    /\ UNCHANGED notProvVars

Complete(validRequest) ==
    IF validRequest THEN ProviderBegin("complete", "calling", 1, NoError)
    ELSE ProviderBegin("complete", "threw", 0,
                       ProviderError("invalid_request_error", FALSE))

Embed == ProviderBegin("embed", "calling", 1, NoError)

Stream(validRequest) ==
    IF validRequest THEN ProviderBegin("stream", "calling", 1, NoError)
    ELSE ProviderBegin("stream", "threw", 0,
                       ProviderError("invalid_request_error", FALSE))

\* The vendor call (or the timer of withTimeout) settles.
VendorResolves ==
    /\ pvPc = "calling"
    /\ pvPc' = "returned"
    /\ UNCHANGED <<notProvVars, pvOp, pvAttempt, pvCalls, pvErrors, pvThrown,
                   pvOps>>

\* The operation catches providerError: stream lets it through, withRetry
\* lets it through or sleeps before the next attempt.
ProviderCatches(providerError) ==
    /\ pvPc = "calling"
    /\ pvErrors' = Append(pvErrors, providerError)
    /\ IF pvOp = "stream" \/ withRetryRethrows(providerError, pvAttempt)
       THEN pvPc' = "threw" /\ pvThrown' = providerError
       ELSE pvPc' = "sleeping" /\ pvThrown' = pvThrown
    /\ UNCHANGED <<notProvVars, pvOp, pvAttempt, pvCalls, pvOps>>

VendorRejects(error) == ProviderCatches(mapError(error))

TimeoutFires == ProviderCatches(TimeoutError)

\* The delay of withRetry is over: the loop goes on with the next attempt,
\* or ends and throws the last error.
SleepDone ==
    /\ pvPc = "sleeping"
    /\ pvAttempt' = pvAttempt + 1
    /\ IF pvAttempt + 1 <= maxRetries
       THEN /\ pvPc' = "calling"
            /\ pvCalls' = pvCalls + 1
            /\ pvThrown' = pvThrown
       ELSE /\ pvPc' = "threw"
            /\ pvCalls' = pvCalls
            /\ pvThrown' = pvErrors[Len(pvErrors)]
    /\ UNCHANGED <<notProvVars, pvOp, pvErrors, pvOps>>

CompleteCalled == \E validRequest \in BOOLEAN : Complete(validRequest)
StreamCalled == \E validRequest \in BOOLEAN : Stream(validRequest)
VendorRejected == \E error \in VendorErrors : VendorRejects(error)

NextProvider ==
    \/ CompleteCalled
    \/ Embed
    \/ StreamCalled
    \/ VendorResolves
    \/ VendorRejected
    \/ TimeoutFires
    \/ SleepDone

SpecProvider == InitAlone /\ [][NextProvider]_vars

\* ----------------------------------------------- claims on the provider
\* C25: complete and embed call the vendor again only after a retryable
\* error and at most maxRetries times; a non-retryable error, and the
\* error of the last allowed attempt, goes to the caller at once, with no
\* further vendor call; stream calls the vendor at most once.
C25_RetryOnlyRetryableUpToMaxRetries ==
    /\ pvCalls <= maxRetries + 1
    /\ pvOp = "stream" => pvCalls <= 1
    /\ \A i \in 1..Len(pvErrors) : i < pvCalls => pvErrors[i].retryable
    /\ pvCalls <= Len(pvErrors) + 1
    /\ (/\ pvErrors # <<>>
        /\ \/ ~pvErrors[Len(pvErrors)].retryable
           \/ Len(pvErrors) = maxRetries + 1
           \/ pvOp = "stream")
          => /\ pvPc = "threw"
             /\ pvThrown = pvErrors[Len(pvErrors)]
             /\ pvCalls = Len(pvErrors)

C25_Witness ==
    /\ pvOp = "complete"
    /\ pvPc = "threw"
    /\ pvCalls = maxRetries + 1
    /\ pvThrown.retryable

\* TaskModelRouter.isModelAvailable.
isModelAvailable(modelId, config) ==
    /\ ~registryDown
    /\ getByModelId(modelId) # NoModel
    /\ getByModelId(modelId).available
    /\ getByModelId(modelId).provider \in config.enabledProviders
    /\ getByModelId(modelId).provider \in registryEnabled

\* C36: the model of every decision routeTask returns, on any path, passes
\* isModelAvailable for the workspace configuration of the call.
C36_SelectedModelIsAvailable ==
    rtLast.kind = "decision"
        => isModelAvailable(rtLast.selectedModel, rtConfig)

\* ------------------------------ CliSessionRedisService.getAllSessionIds
\* One action per iteration of the loop: the SCAN call it awaits and the
\* keys of the page it goes through.
notScanVars == <<sessVars, objVars, pubVars, modVars, histVars, apiVars,
                 routerVars, provVars,
                 cacheVars,
                 retryVars,
                 batchVars>>

\* The COUNT given to SCAN (100 in the code, which also divides maxResults
\* by it), the maxResults of the calls and the keys of the store.
ScanCount == 2
maxResults == 2
MaxKeys == 4

\* A key cli:session:{id}, and a key of another kind (workspace set, agent
\* pointer, history list), which the MATCH pattern leaves out.
SessionKey(id) == <<"cli:session:", id>>
OtherKey == <<"cli:", 0>>
ScanKeys == {SessionKey(id) : id \in 1..(maxResults + 1)} \cup {OtherKey}

\* The stores of the runs: no session key twice.
Keyspaces ==
    {ks \in UNION {[1..n -> ScanKeys] : n \in 0..MaxKeys} :
        \A i, j \in 1..Len(ks) : (i # j /\ ks[i] = ks[j]) => ks[i] = OtherKey}

\* Math.ceil(maxResults / 100)
maxIterations == (maxResults + ScanCount - 1) \div ScanCount

matchesSessionPattern(key) == key[1] = "cli:session:"
\* key.replace(REDIS_KEY_PATTERNS.SESSION, '')
sessionIdOfKey(key) == key[2]

\* What one SCAN call at the cursor returns: the matching keys among the
\* next ScanCount keys.
scanPage(cursor) ==
    SelectSeq(SubSeq(keyspace, cursor + 1, Min(cursor + ScanCount, Len(keyspace))),
              matchesSessionPattern)

nextCursor(cursor) == Min(cursor + ScanCount, Len(keyspace))

GetAllSessionIdsCall(ks) ==
    /\ scPc \in {"idle", "returned"}
    /\ keyspace' = ks
    /\ scPc' = "scanning"
    /\ scCursor' = 0
    /\ scIterations' = 0
    /\ scIds' = <<>>
    /\ UNCHANGED notScanVars

\* One iteration: SCAN, push the ids of the page until maxResults is
\* reached, then the loop condition.
loopGoesOn(cursor, iterations) ==
    cursor # Len(keyspace) /\ iterations < maxIterations

GetAllSessionIdsScan ==
    /\ scPc = "scanning"
    /\ LET ids == scIds \o [i \in 1..Len(scanPage(scCursor)) |->
                              sessionIdOfKey(scanPage(scCursor)[i])]
       IN  /\ scCursor' = nextCursor(scCursor)
           /\ scIterations' = scIterations + 1
           /\ IF Len(ids) >= maxResults
              THEN scIds' = SubSeq(ids, 1, maxResults) /\ scPc' = "returned"
              ELSE /\ scIds' = ids
                   /\ scPc' = IF loopGoesOn(nextCursor(scCursor),
                                            scIterations + 1)
                              THEN "scanning" ELSE "returned"
    /\ UNCHANGED <<notScanVars, keyspace>>

GetAllSessionIdsCalled == \E ks \in Keyspaces : GetAllSessionIdsCall(ks)

NextScan == GetAllSessionIdsCalled \/ GetAllSessionIdsScan

SpecScan == InitAlone /\ [][NextScan]_vars

storedSessionIds ==
    {sessionIdOfKey(keyspace[i]) :
        i \in {j \in 1..Len(keyspace) : matchesSessionPattern(keyspace[j])}}

\* C37: a getAllSessionIds call on a store of at most maxResults session
\* records returns every one of them, whatever other keys the store holds,
\* and never more than maxResults ids.
C37_ScanReturnsEverySession ==
    scPc = "returned"
        => /\ Len(scIds) <= maxResults
           /\ Cardinality(storedSessionIds) <= maxResults
                 => {scIds[i] : i \in 1..Len(scIds)} = storedSessionIds

\* ------------------------------------------ ModelRegistryClient.cachedFetch
\* One action up to the await of fetchFromApi, one for what follows it.
notCacheVars == <<sessVars, objVars, pubVars, modVars, histVars, apiVars,
                  routerVars, provVars, scanVars,
                  retryVars,
                  batchVars>>

\* An entry of the Map; storedAt numbers the cache.set calls.
CacheEntry(url, storedAt, expiresAt) ==
    [url |-> url, storedAt |-> storedAt, expiresAt |-> expiresAt]

cacheHas(c, url) == \E i \in 1..Len(c) : c[i].url = url
cacheGet(c, url) == c[CHOOSE i \in 1..Len(c) : c[i].url = url]

\* cached && cached.expiresAt > Date.now()
isFresh(url) == cacheHas(cache, url) /\ cacheGet(cache, url).expiresAt > cfNow

\* Map.set: a key the Map holds keeps its place, a new key goes last.
mapSet(c, entry) ==
    IF cacheHas(c, entry.url)
    THEN [i \in 1..Len(c) |-> IF c[i].url = entry.url THEN entry ELSE c[i]]
    ELSE Append(c, entry)

\* The pass that deletes the expired entries.
withoutExpired(c) == SelectSeq(c, LAMBDA e : e.expiresAt > cfNow)

\* while (cache.size >= maxCacheSize) delete the first key.
RECURSIVE evictOldest(_)
evictOldest(c) ==
    IF Len(c) >= maxCacheSize /\ c # <<>> THEN evictOldest(Tail(c)) ELSE c

evict(c) ==
    IF Len(c) >= maxCacheSize THEN evictOldest(withoutExpired(c)) ELSE c

CachedFetchHit(url) ==
    /\ cfCalls < MaxFetches
    /\ isFresh(url)
    /\ cfCalls' = cfCalls + 1
    /\ UNCHANGED <<notCacheVars, cache, cfNow, cfInFlight, cfStores>>

CachedFetchMiss(url) ==
    /\ cfCalls < MaxFetches
    /\ ~isFresh(url)
    /\ cfInFlight[url] < MaxInFlight
    /\ cfCalls' = cfCalls + 1
    /\ cfInFlight' = [cfInFlight EXCEPT ![url] = @ + 1]
    /\ UNCHANGED <<notCacheVars, cache, cfNow, cfStores>>

\* fetchFromApi resolved: evict, then store.
FetchDone(url) ==
    /\ cfInFlight[url] > 0
    /\ cfInFlight' = [cfInFlight EXCEPT ![url] = @ - 1]
    /\ cfStores' = cfStores + 1
    /\ cache' = mapSet(evict(cache),
                       CacheEntry(url, cfStores + 1, cfNow + cacheTtlMs))
    /\ UNCHANGED <<notCacheVars, cfNow, cfCalls>>

\* fetchFromApi threw: cachedFetch throws, the cache is as it was.
FetchFails(url) ==
    /\ cfInFlight[url] > 0
    /\ cfInFlight' = [cfInFlight EXCEPT ![url] = @ - 1]
    /\ UNCHANGED <<notCacheVars, cache, cfNow, cfCalls, cfStores>>

ClockTick ==
    /\ cfNow < MaxNow
    /\ cfNow' = cfNow + 1
    /\ UNCHANGED <<notCacheVars, cache, cfInFlight, cfCalls, cfStores>>

CachedFetchHits == \E url \in Urls : CachedFetchHit(url)
CachedFetchMisses == \E url \in Urls : CachedFetchMiss(url)
FetchIsDone == \E url \in Urls : FetchDone(url)
FetchHasFailed == \E url \in Urls : FetchFails(url)

NextCache ==
    \/ CachedFetchHits
    \/ CachedFetchMisses
    \/ FetchIsDone
    \/ FetchHasFailed
    \/ ClockTick

SpecCache == InitAlone /\ [][NextCache]_vars

\* The entries a step evicted: their url is no longer in the Map.
evictedEntries == {e \in elements(cache) : ~cacheHas(cache', e.url)}

\* C38: the cache never holds more than maxCacheSize entries, and the
\* entries a store evicts are expired ones, or - once no expired entry is
\* left - entries whose data was stored before the data of every entry
\* that stays.
C38_StepsOfCachedFetch ==
    /\ Len(cache') <= maxCacheSize
    /\ \A e \in evictedEntries :
          \/ e.expiresAt <= cfNow
          \/ /\ \A f \in elements(cache) :
                   f.expiresAt <= cfNow => f \notin elements(cache')
             /\ \A f \in elements(cache) :
                   f \in elements(cache') => e.storedAt < f.storedAt

C38_BoundedAndOldestDataEvicted == [][C38_StepsOfCachedFetch]_vars

\* ----------------------------------------------------------------- C39
\* The events of the flushes that have completed: the settled events that
\* are not in the batch of the flush in progress.
takenByCompletedFlushes ==
    {e \in Events : evState[e] \in {"ok", "failed"} /\ e \notin Range(batch)}

\* The publishFailures counted for events of completed flushes.
failuresOfCompletedFlushes ==
    Cardinality({e \in takenByCompletedFlushes : evState[e] = "failed"})

\* C39: eventsPublished counts only the events whose publish succeeded, so
\* eventsPublished plus the publishFailures of the completed flushes is the
\* number of events those flushes took.
C39_PublishedPlusFailuresIsTaken ==
    /\ eventsPublished =
          Cardinality({e \in takenByCompletedFlushes : evState[e] = "ok"})
    /\ eventsPublished + failuresOfCompletedFlushes =
          Cardinality(takenByCompletedFlushes)

\* ----------------------------------------------------------------- C40
\* C40: a flush never takes more than maxBatchSize events.
C40_FlushTakesAtMostMaxBatchSize == Len(batch) <= maxBatchSize

\* ----------------------------------------------------------------- C32
\* C32: each enqueued event is delivered to the channel at most once.
C32_DeliveredAtMostOnce ==
    \A i, j \in 1..Len(channel) : channel[i] = channel[j] => i = j

\* ------------------------------------ CliOutputPublisher.publishWithRetry
\* One message through the retry loop, with the clock: an attempt that is
\* rejected at once takes no time, one that times out takes
\* publishTimeoutMs, a back-off delay takes its length.
notRetryVars == <<sessVars, objVars, pubVars, modVars, histVars, apiVars,
                  routerVars, provVars, scanVars, cacheVars,
                  batchVars>>

\* DEFAULT_PUBLISHER_CONFIG.publishTimeoutMs
publishTimeoutMs == 500
\* The largest retryAttempts of the configurations, and the calls of a run.
MaxAttempts == 3
MaxRetryCalls == 2
\* retryDelayMs of the configurations (100 is the default).
RetryDelays == {100, 250}
RetryConfigs ==
    [retryAttempts : 1..MaxAttempts, retryDelayMs : RetryDelays]

\* if (attempt < this.config.retryAttempts - 1)
sleepsAfter(a, config) == a < config.retryAttempts - 1

\* this.config.retryDelayMs * Math.pow(2, attempt)
backoffDelay(a, config) == config.retryDelayMs * 2^a

PublishWithRetryCall(config) ==
    /\ pwPc \in {"idle", "returned"}
    /\ pwCalls < MaxRetryCalls
    /\ pwCalls' = pwCalls + 1
    /\ pwConfig' = config
    /\ pwPc' = "attempt"
    /\ pwAttempt' = 0
    /\ pwNow' = 0
    /\ pwDelays' = <<>>
    /\ pwTimeouts' = 0
    /\ pwResult' = "none"
    /\ UNCHANGED notRetryVars

\* redis.publish resolved: return.
AttemptSucceeds ==
    /\ pwPc = "attempt"
    /\ pwPc' = "returned"
    /\ pwResult' = "ok"
    /\ UNCHANGED <<notRetryVars, pwConfig, pwAttempt, pwNow, pwDelays,
                   pwTimeouts, pwCalls>>

\* The catch block after the attempt took ms: the delay, or, after the last
\* attempt, the end of the loop, publishFailures++ and return.
AttemptFailed(ms) ==
    /\ pwNow' = pwNow + ms
    /\ IF sleepsAfter(pwAttempt, pwConfig)
       THEN /\ pwPc' = "delay"
            /\ UNCHANGED pwResult
       ELSE /\ pwPc' = "returned"
            /\ pwResult' = "dropped"
    /\ UNCHANGED <<notRetryVars, pwConfig, pwAttempt, pwDelays, pwCalls>>

\* redis.publish rejected at once.
AttemptRejected ==
    /\ pwPc = "attempt"
    /\ AttemptFailed(0)
    /\ UNCHANGED pwTimeouts

\* The publishTimeoutMs timer rejected first.
AttemptTimedOut ==
    /\ pwPc = "attempt"
    /\ AttemptFailed(publishTimeoutMs)
    /\ pwTimeouts' = pwTimeouts + 1

\* The delay is over: attempt++ and the next attempt.
DelayDone ==
    /\ pwPc = "delay"
    /\ pwNow' = pwNow + backoffDelay(pwAttempt, pwConfig)
    /\ pwDelays' = Append(pwDelays, backoffDelay(pwAttempt, pwConfig))
    /\ pwAttempt' = pwAttempt + 1
    /\ pwPc' = "attempt"
    /\ UNCHANGED <<notRetryVars, pwConfig, pwTimeouts, pwResult, pwCalls>>

PublishWithRetryCalled == \E config \in RetryConfigs : PublishWithRetryCall(config)

NextRetry ==
    \/ PublishWithRetryCalled
    \/ AttemptSucceeds
    \/ AttemptRejected
    \/ AttemptTimedOut
    \/ DelayDone

SpecRetry == InitAlone /\ [][NextRetry]_vars

\* ----------------------------------------------------------------- C35
\* C35: with retryAttempts = 3 and retryDelayMs = 100, a message whose
\* every attempt is rejected at once is dropped after back-off delays of
\* 100, 200 and 400 ms, 700 ms after its first attempt.
C35_DroppedAfter700ms ==
    (/\ pwResult = "dropped"
     /\ pwConfig = [retryAttempts |-> 3, retryDelayMs |-> 100]
     /\ pwTimeouts = 0)
    => /\ pwDelays = <<100, 200, 400>>
       /\ pwNow = 700

\* ------------------------------- CliOutputPublisher.publish and the timer
\* publish(), scheduleBatchFlush() and flush() with the clock.  A flush is
\* in flight from the moment it takes the events until every
\* publishWithRetry of the batch has returned, which takes any time.
notBatchVars == <<sessVars, objVars, pubVars, modVars, histVars, apiVars,
                  routerVars, provVars, scanVars, cacheVars, retryVars>>

\* config.batchWindowMs in ticks (a tick is 50 ms, the window 100 ms), the
\* end of the clock, the events of a run and the largest maxBatchSize.
batchWindowMs == 2
MaxBatchNow == 5
MaxBatchEvents == 4
MaxBatchSizes == 3
BatchSizes == 2..MaxBatchSizes

\* scheduleBatchFlush: when the timer is due after the call.
scheduleBatchFlushAt(due, now) == IF due # 0 THEN due ELSE now + batchWindowMs

\* flush() called at the clock's time with pendingEvents P and the timer
\* due: with a flush in flight it awaits flushPromise, with nothing pending
\* it returns, else it clears the timer and takes all of pendingEvents.
BatchFlush(P, due) ==
    IF bwInFlight
    THEN /\ bwWaiters' = bwWaiters + 1
         /\ bwPending' = P
         /\ bwTimerDue' = due
         /\ UNCHANGED <<bwInFlight, bwFlushes>>
    ELSE IF P = <<>>
    THEN /\ bwPending' = P
         /\ bwTimerDue' = due
         /\ UNCHANGED <<bwInFlight, bwWaiters, bwFlushes>>
    ELSE /\ bwTimerDue' = 0
         /\ bwInFlight' = TRUE
         /\ bwPending' = <<>>
         /\ bwFlushes' = Append(bwFlushes, [at |-> bwNow, events |-> P])
         /\ UNCHANGED bwWaiters

\* The events the flushes have taken: the j-th event of the i-th flush.
takenEvents ==
    UNION {{<<i, j>> : j \in 1..Len(bwFlushes[i].events)} :
              i \in 1..Len(bwFlushes)}

\* new CliOutputPublisher(redis, config)
NewPublisher(size) ==
    /\ bwMaxBatchSize = 0
    /\ bwMaxBatchSize' = size
    /\ UNCHANGED <<notBatchVars, bwNow, bwPending, bwTimerDue, bwInFlight,
                   bwWaiters, bwFlushes>>

\* publish() at the clock's time.
BatchPublish ==
    /\ bwMaxBatchSize # 0
    /\ Len(bwPending) + Cardinality(takenEvents) < MaxBatchEvents
    /\ LET P == Append(bwPending, bwNow)
       IN IF Len(P) >= bwMaxBatchSize
          THEN BatchFlush(P, bwTimerDue)
          ELSE /\ bwPending' = P
               /\ bwTimerDue' = scheduleBatchFlushAt(bwTimerDue, bwNow)
               /\ UNCHANGED <<bwInFlight, bwWaiters, bwFlushes>>
    /\ UNCHANGED <<notBatchVars, bwMaxBatchSize, bwNow>>

\* The batch timer fires when it is due: batchTimer = null, flush().
BatchTimerDue ==
    /\ bwTimerDue # 0
    /\ bwNow = bwTimerDue
    /\ BatchFlush(bwPending, 0)
    /\ UNCHANGED <<notBatchVars, bwMaxBatchSize, bwNow>>

\* Every publishWithRetry of the batch has returned: the finally block
\* releases the lock and schedules the timer for what is pending; then the
\* flush() calls that awaited flushPromise resume, and the first that finds
\* events pending clears the timer and takes them.
BatchFlushCompletes ==
    /\ bwInFlight
    /\ bwWaiters' = 0
    /\ IF bwWaiters > 0 /\ bwPending # <<>>
       THEN /\ bwTimerDue' = 0
            /\ bwPending' = <<>>
            /\ bwFlushes' = Append(bwFlushes, [at |-> bwNow, events |-> bwPending])
            /\ UNCHANGED bwInFlight
       ELSE /\ bwInFlight' = FALSE
            /\ bwTimerDue' = IF bwPending # <<>>
                             THEN scheduleBatchFlushAt(bwTimerDue, bwNow)
                             ELSE bwTimerDue
            /\ UNCHANGED <<bwPending, bwFlushes>>
    /\ UNCHANGED <<notBatchVars, bwMaxBatchSize, bwNow>>

\* A tick of the clock; a timer that is due fires before the clock moves on.
BatchTick ==
    /\ bwMaxBatchSize # 0
    /\ bwNow < MaxBatchNow
    /\ bwTimerDue = 0 \/ bwNow < bwTimerDue
    /\ bwNow' = bwNow + 1
    /\ UNCHANGED <<notBatchVars, bwMaxBatchSize, bwPending, bwTimerDue,
                   bwInFlight, bwWaiters, bwFlushes>>

PublisherConstructed == \E size \in BatchSizes : NewPublisher(size)

NextBatch ==
    \/ PublisherConstructed
    \/ BatchPublish
    \/ BatchTimerDue
    \/ BatchFlushCompletes
    \/ BatchTick

SpecBatch == InitAlone /\ [][NextBatch]_vars

\* ----------------------------------------------------------------- C34
\* C34: pending events are flushed when their count reaches maxBatchSize or
\* when batchWindowMs has gone by since the first enqueue of the batch,
\* whichever comes first: fewer than maxBatchSize events are pending, and
\* none for longer than batchWindowMs.
C34_FlushedAtSizeOrWindow ==
    bwMaxBatchSize # 0 =>
       /\ Len(bwPending) < bwMaxBatchSize
       /\ bwPending # <<>> => bwNow <= bwPending[1] + batchWindowMs

\* ------------------------- SessionManager.createSession, the store failing
\* The commands of storeSession in the order it awaits them: HSET, EXPIRE,
\* SADD, SET.  The store after the first n of them were executed and the
\* next one was rejected.
storeSessionRecUpTo(s, a, w, n) ==
    IF n >= 1 THEN [rec EXCEPT ![s] = SessionRecord(a, w)] ELSE rec
storeSessionSetUpTo(s, w, n) ==
    IF n >= 3 THEN [wsSet EXCEPT ![w] = storeSessionSadd(@, s)] ELSE wsSet

\* A command of storeSession is rejected after n were executed: the await
\* in createSession throws, and createSession has no try around it, so
\* the call throws to its caller; sessions.set, agentToSession.set,
\* startHeartbeat and session.on('terminated') are not reached.
StoreSessionThrows(s, n) ==
    /\ cpc[s] = "storing"
    /\ rec' = storeSessionRecUpTo(s, agentOf[s], wsOf[s], n)
    /\ wsSet' = storeSessionSetUpTo(s, wsOf[s], n)
    /\ cpc' = [cpc EXCEPT ![s] = "thrown"]
    /\ UNCHANGED <<restVars, nextId, agentOf, wsOf, peak, procVars, mapVars,
                   agentPtr, bgDelete, termVars, allVars, hmVars>>

StoreSessionFails == \E s \in SessionIds, n \in 0..3 : StoreSessionThrows(s, n)

NextCreate ==
    \/ \E a \in Agents, w \in Workspaces : CreateSessionCount(a, w)
    \/ \E s \in SessionIds : CreateSessionSpawn(s)
    \/ \E s \in SessionIds : StoreSessionDone(s)
    \/ StoreSessionFails
    \/ \E s \in SessionIds : HandleExit(s)
    \/ \E s \in SessionIds : BgDeleteDone(s)

SpecCreate == InitAlone /\ [][NextCreate]_vars

\* ----------------------------------------------------------------- C31
\* C31: when createSession has failed after the spawn because the store
\* write threw, no process of that session runs untracked and the store
\* holds nothing of that session.
C31_FailedCreateLeavesNothing ==
    \A s \in SessionIds :
       cpc[s] = "thrown" =>
          /\ ~(status[s] = "running" /\ Untracked(s))
          /\ Unstored(s)

\* ----------------------------------------------------------------- C33
\* The sessions a pass discovered and has not examined whose record is
\* stale and not terminated.
staleUnexamined == {s \in hmIds : isStale(rec[s])}

\* C33: a stale session is handed to terminateSession by the pass that
\* discovers it, whatever happens to the other sessions of the pass: a pass
\* does not end with a stale session unexamined, other than one whose own
\* record could not be read.
C33_StaleHandedOverInThePass ==
    [][(hmPc # "idle" /\ hmPc' = "idle") =>
          Cardinality(staleUnexamined) <= 1]_vars

====
